---- MODULE Spec2Model ----
(***************************************************************************)
(* envsitter: the round-trip dotenv document parser and stringifier, value *)
(* auto-quoting, the mutation engine (copy, annotate, format) and the      *)
(* EnvSitter matching engine.                                              *)
(*                                                                         *)
(* A JavaScript string is a sequence of one-character strings.  Indices of *)
(* the source are zero-based; At and Slice keep them zero-based.           *)
(***************************************************************************)
EXTENDS Integers, Sequences, FiniteSets, TLC

VARIABLES
    pc,          \* the step the running scenario has reached
    contents,    \* document scenario: the text handed to parseDotenvDocument
    doc,         \* document scenario: the parsed DotenvDocument
    output,      \* document scenario: the text stringifyDotenvDocument returned
    value,       \* quoting scenario: the value handed to quoteValue
    quoted,      \* quoting scenario: the text quoteValue returned
    reparsed,    \* quoting scenario: what parseValueDetailed made of it
    snapshot,    \* matching scenario: the Snapshot source.load() returns (key -> value)
    pepper,      \* matching scenario: what resolvePepper does in this environment
    lastIndex,   \* matching scenario: lastIndex of the caller's RegExp object
    call,        \* matching scenario: the last EnvSitter method called, with its arguments
    result,      \* matching scenario: what that call returned or threw
    sourceContents,  \* editing scenarios: the text keys are copied from
    original,    \* editing scenarios: the edited text before the first operation
    edited,      \* editing scenarios: the edited text now (each operation works on the last output)
    options,     \* editing scenarios: the options every operation of the scenario is given
    outcomes,    \* editing scenarios: what the operations returned, in order
    files,       \* file scenarios: the file system, path -> text of the file
    env,         \* file scenarios: process.env, name -> value
    fsLog,       \* file scenarios: the file-system calls made so far, in order
    tasks        \* concurrent scenarios: the calls in flight, each with its position and locals

vars == <<pc, contents, doc, output, value, quoted, reparsed,
          snapshot, pepper, lastIndex, call, result,
          sourceContents, original, edited, options, outcomes, files, env, fsLog, tasks>>

----------------------------------------------------------------------------
(* Bounds of the explored inputs.                                          *)

MaxLines == 3
MaxValueLen == 3
MaxKeys == 2
MaxCalls == 2
MaxCopyLines == 2

----------------------------------------------------------------------------
(* String primitives of the JavaScript runtime.                            *)

Min(S) == CHOOSE m \in S : \A n \in S : m <= n

Max(S) == CHOOSE m \in S : \A n \in S : m >= n

\* s[i] ?? '' with a zero-based index
At(s, i) == IF i >= 0 /\ i < Len(s) THEN s[i + 1] ELSE ""

\* s.slice(a, b) with zero-based, non-negative bounds
Slice(s, a, b) == SubSeq(s, a + 1, IF b > Len(s) THEN Len(s) ELSE b)

\* s.slice(a)
SliceFrom(s, a) == SubSeq(s, a + 1, Len(s))

\* s.startsWith(p)
StartsWith(s, p) == Len(s) >= Len(p) /\ SubSeq(s, 1, Len(p)) = p

\* s.endsWith(p)
EndsWith(s, p) == Len(s) >= Len(p) /\ SubSeq(s, Len(s) - Len(p) + 1, Len(s)) = p

\* s.indexOf(c, from) for a one-character c; -1 when absent
IndexOf(s, c, from) ==
    LET hits == {i \in from..(Len(s) - 1) : s[i + 1] = c}
    IN  IF hits = {} THEN -1 ELSE Min(hits)

\* the characters the regular expression \s matches
WhitespaceChars == {" ", "\t", "\n", "\r", "\f"}

\* the characters the regular expression [A-Za-z0-9_] matches
KeyChars ==
    {"A", "B", "C", "D", "E", "F", "G", "H", "I", "J", "K", "L", "M",
     "N", "O", "P", "Q", "R", "S", "T", "U", "V", "W", "X", "Y", "Z",
     "a", "b", "c", "d", "e", "f", "g", "h", "i", "j", "k", "l", "m",
     "n", "o", "p", "q", "r", "s", "t", "u", "v", "w", "x", "y", "z",
     "0", "1", "2", "3", "4", "5", "6", "7", "8", "9", "_"}

\* the grave accent character (U+0060), which a TLA+ string literal cannot hold
Backtick == "GRAVE"

isWhitespace(char) == char \in WhitespaceChars

isValidKeyChar(char) == char \in KeyChars

\* s.trimStart()
TrimStart(s) ==
    LET keep == {i \in 1..Len(s) : ~isWhitespace(s[i])}
    IN  IF keep = {} THEN <<>> ELSE SubSeq(s, Min(keep), Len(s))

\* s.trimEnd()
TrimEnd(s) ==
    LET keep == {i \in 1..Len(s) : ~isWhitespace(s[i])}
    IN  IF keep = {} THEN <<>> ELSE SubSeq(s, 1, Max(keep))

\* s.trim()
Trim(s) == TrimEnd(TrimStart(s))

\* the cursor after `while (cursor < raw.length && isWhitespace(raw[cursor])) cursor++`
SkipWhitespace(raw, cursor) ==
    LET stop == {i \in cursor..(Len(raw) - 1) : ~isWhitespace(raw[i + 1])}
    IN  IF stop # {} THEN Min(stop) ELSE IF cursor > Len(raw) THEN cursor ELSE Len(raw)

\* the cursor after `while (cursor < raw.length && isValidKeyChar(raw[cursor])) cursor++`
SkipKeyChars(raw, cursor) ==
    LET stop == {i \in cursor..(Len(raw) - 1) : ~isValidKeyChar(raw[i + 1])}
    IN  IF stop # {} THEN Min(stop) ELSE IF cursor > Len(raw) THEN cursor ELSE Len(raw)

\* parts.join(sep) for a sequence of strings
RECURSIVE Join(_, _)
Join(parts, sep) ==
    IF Len(parts) = 0 THEN <<>>
    ELSE IF Len(parts) = 1 THEN parts[1]
    ELSE parts[1] \o sep \o Join(Tail(parts), sep)

\* contents.split(/\r?\n/): the segments between the line terminators
RECURSIVE SplitLinesFrom(_, _, _, _)
SplitLinesFrom(s, i, cur, acc) ==
    IF i > Len(s) THEN Append(acc, cur)
    ELSE IF s[i] = "\r" /\ i < Len(s) /\ s[i + 1] = "\n"
         THEN SplitLinesFrom(s, i + 2, <<>>, Append(acc, cur))
    ELSE IF s[i] = "\n"
         THEN SplitLinesFrom(s, i + 1, <<>>, Append(acc, cur))
    ELSE SplitLinesFrom(s, i + 1, Append(cur, s[i]), acc)

SplitLines(s) == SplitLinesFrom(s, 1, <<>>, <<>>)

\* s.replace(/c/g, repl) for a one-character c
RECURSIVE ReplaceAll(_, _, _)
ReplaceAll(s, c, repl) ==
    IF Len(s) = 0 THEN <<>>
    ELSE (IF Head(s) = c THEN repl ELSE <<Head(s)>>) \o ReplaceAll(Tail(s), c, repl)

----------------------------------------------------------------------------
(* dotenv/document.ts: the line classifier and the document model.         *)

stripInlineComment(unquotedValue) ==
    LET hits == {i \in 0..(Len(unquotedValue) - 1) :
                    /\ unquotedValue[i + 1] = "#"
                    /\ (i = 0 \/ isWhitespace(unquotedValue[i]))}
    IN  IF hits = {} THEN unquotedValue ELSE Slice(unquotedValue, 0, Min(hits))

RECURSIVE unescapeFrom(_, _)
unescapeFrom(v, i) ==
    IF i >= Len(v) THEN <<>>
    ELSE IF v[i + 1] # "\\" THEN <<v[i + 1]>> \o unescapeFrom(v, i + 1)
    ELSE IF i + 1 >= Len(v) THEN <<"\\">> \o unescapeFrom(v, i + 1)
    ELSE (CASE v[i + 2] = "n" -> <<"\n">>
            [] v[i + 2] = "r" -> <<"\r">>
            [] v[i + 2] = "t" -> <<"\t">>
            [] OTHER -> <<v[i + 2]>>) \o unescapeFrom(v, i + 2)

unescapeDoubleQuoted(v) == unescapeFrom(v, 0)

\* the index at which the closing-quote scan of a double-quoted value stops
DoubleQuoteEnd(trimmed) ==
    LET stop == {e \in 1..(Len(trimmed) - 1) :
                    trimmed[e + 1] = "\"" /\ trimmed[e] # "\\"}
    IN  IF stop = {} THEN Max({1, Len(trimmed)}) ELSE Min(stop)

Issue(line, column, message) == [line |-> line, column |-> column, message |-> message]

parseValueDetailed(afterEqRaw, line) ==
    LET trimmed == TrimStart(afterEqRaw)
    IN  IF Len(trimmed) = 0
        THEN [value |-> <<>>, quote |-> "none", issues |-> <<>>]
        ELSE IF trimmed[1] = "'"
        THEN LET end == IndexOf(trimmed, "'", 1)
             IN  IF end = -1
                 THEN [value |-> SliceFrom(trimmed, 1), quote |-> "single",
                       issues |-> <<Issue(line, 1, "Unterminated single-quoted value")>>]
                 ELSE [value |-> Slice(trimmed, 1, end), quote |-> "single", issues |-> <<>>]
        ELSE IF trimmed[1] = "\""
        THEN LET end == DoubleQuoteEnd(trimmed)
             IN  IF end >= Len(trimmed) \/ trimmed[end + 1] # "\""
                 THEN [value |-> unescapeDoubleQuoted(SliceFrom(trimmed, 1)), quote |-> "double",
                       issues |-> <<Issue(line, 1, "Unterminated double-quoted value")>>]
                 ELSE [value |-> unescapeDoubleQuoted(Slice(trimmed, 1, end)), quote |-> "double",
                       issues |-> <<>>]
        ELSE [value |-> TrimEnd(stripInlineComment(trimmed)), quote |-> "none", issues |-> <<>>]

ExportWord == <<"e", "x", "p", "o", "r", "t">>

\* parseAssignmentLine once the value after '=' is parsed
AssignmentLine(raw, line, c0, isExport, keyStart, keyEnd, eqAt, pv) ==
    [parsed |-> <<[kind |-> "assignment", line |-> line, raw |-> raw,
                   leadingWhitespace |-> Slice(raw, 0, c0), exported |-> isExport,
                   key |-> Slice(raw, keyStart, keyEnd), keyColumn |-> keyStart + 1,
                   beforeEqWhitespace |-> Slice(raw, keyEnd, eqAt),
                   afterEqRaw |-> SliceFrom(raw, eqAt + 1), quote |-> pv.quote,
                   value |-> pv.value]>>,
     issues |-> pv.issues]

\* parseAssignmentLine once the cursor stands where '=' must be
AssignmentFromEq(raw, line, c0, isExport, keyStart, keyEnd, eqAt) ==
    IF Len(Slice(raw, keyStart, keyEnd)) = 0
    THEN [parsed |-> <<>>, issues |-> <<Issue(line, keyStart + 1, "Invalid key name")>>]
    ELSE IF At(raw, keyEnd) # "" /\ ~isWhitespace(At(raw, keyEnd)) /\ At(raw, keyEnd) # "="
    THEN [parsed |-> <<>>, issues |-> <<Issue(line, keyEnd + 1, "Invalid key name")>>]
    ELSE IF At(raw, eqAt) # "="
    THEN [parsed |-> <<>>, issues |-> <<Issue(line, eqAt + 1, "Missing = in assignment")>>]
    ELSE AssignmentLine(raw, line, c0, isExport, keyStart, keyEnd, eqAt,
                        parseValueDetailed(SliceFrom(raw, eqAt + 1), line))

\* parseAssignmentLine once the end of the key is known
AssignmentFromKeyEnd(raw, line, c0, isExport, keyStart, keyEnd) ==
    AssignmentFromEq(raw, line, c0, isExport, keyStart, keyEnd, SkipWhitespace(raw, keyEnd))

\* parseAssignmentLine once the start of the key is known
AssignmentFromKeyStart(raw, line, c0, isExport, keyStart) ==
    AssignmentFromKeyEnd(raw, line, c0, isExport, keyStart, SkipKeyChars(raw, keyStart))

\* parseAssignmentLine once 'export' is recognised or not
AssignmentFromExport(raw, line, c0, isExport) ==
    AssignmentFromKeyStart(raw, line, c0, isExport,
                           IF isExport THEN SkipWhitespace(raw, c0 + Len(ExportWord)) ELSE c0)

\* parseAssignmentLine once the leading whitespace is skipped
AssignmentFromColumn(raw, line, c0) ==
    AssignmentFromExport(raw, line, c0,
                         StartsWith(SliceFrom(raw, c0), ExportWord)
                             /\ isWhitespace(At(raw, c0 + Len(ExportWord))))

\* [parsed |-> <<assignment>> or <<>> (undefined), issues |-> the issues pushed]
parseAssignmentLine(raw, line) == AssignmentFromColumn(raw, line, SkipWhitespace(raw, 0))

\* a mutant of ClassifyLine: a line that is no assignment is kept without its issue
ClassifyLineDropsIssues(raw, lineNumber) ==
    IF Len(Trim(raw)) = 0
    THEN [lines |-> <<[kind |-> "blank", line |-> lineNumber, raw |-> raw]>>, issues |-> <<>>]
    ELSE IF StartsWith(TrimStart(raw), <<"#">>)
    THEN [lines |-> <<[kind |-> "comment", line |-> lineNumber, raw |-> raw]>>, issues |-> <<>>]
    ELSE IF Len(parseAssignmentLine(raw, lineNumber).parsed) > 0
    THEN [lines |-> parseAssignmentLine(raw, lineNumber).parsed,
          issues |-> parseAssignmentLine(raw, lineNumber).issues]
    ELSE [lines |-> <<[kind |-> "unknown", line |-> lineNumber, raw |-> raw]>>,
          issues |-> <<>>]

\* one iteration of the classification loop of parseDotenvDocument
ClassifyLine(raw, lineNumber) ==
    IF Len(Trim(raw)) = 0
    THEN [lines |-> <<[kind |-> "blank", line |-> lineNumber, raw |-> raw]>>, issues |-> <<>>]
    ELSE IF StartsWith(TrimStart(raw), <<"#">>)
    THEN [lines |-> <<[kind |-> "comment", line |-> lineNumber, raw |-> raw]>>, issues |-> <<>>]
    ELSE LET p == parseAssignmentLine(raw, lineNumber)
         IN  IF Len(p.parsed) > 0
             THEN [lines |-> p.parsed, issues |-> p.issues]
             ELSE [lines |-> <<[kind |-> "unknown", line |-> lineNumber, raw |-> raw]>>,
                   issues |-> p.issues]

RECURSIVE ClassifyFrom(_, _, _, _)
ClassifyFrom(split, i, lines, issues) ==
    IF i > Len(split) THEN [lines |-> lines, issues |-> issues]
    ELSE LET c == ClassifyLine(split[i], i)
         IN  ClassifyFrom(split, i + 1, lines \o c.lines, issues \o c.issues)

parseDotenvDocument(text) ==
    LET endsWithNewline == EndsWith(text, <<"\n">>)
        all == SplitLines(text)
        split == IF endsWithNewline THEN SubSeq(all, 1, Len(all) - 1) ELSE all
        c == ClassifyFrom(split, 1, <<>>, <<>>)
    IN  [lines |-> c.lines, issues |-> c.issues, endsWithNewline |-> endsWithNewline]

RawLines(lines) == [i \in 1..Len(lines) |-> lines[i].raw]

stringifyDotenvDocument(d) ==
    LET out == Join(RawLines(d.lines), <<"\n">>)
    IN  IF d.endsWithNewline THEN out \o <<"\n">> ELSE out

----------------------------------------------------------------------------
(* dotenv/utils.ts: value auto-quoting.                                    *)

quoteValue(v) ==
    LET hasWhitespace == \E i \in 1..Len(v) : isWhitespace(v[i])
        hasSpecialChars == \E i \in 1..Len(v) : v[i] \in {"#", "\"", "'", "\\", "$", Backtick}
        hasControlChars == \E i \in 1..Len(v) : v[i] \in {"\n", "\r", "\t"}
        hasEdgeSpaces == StartsWith(v, <<" ">>) \/ EndsWith(v, <<" ">>)
        needsQuoting == hasWhitespace \/ hasSpecialChars \/ hasControlChars \/ hasEdgeSpaces
        e1 == ReplaceAll(v, "\\", <<"\\", "\\">>)
        e2 == ReplaceAll(e1, "\"", <<"\\", "\"">>)
        e3 == ReplaceAll(e2, "\n", <<"\\", "n">>)
        e4 == ReplaceAll(e3, "\r", <<"\\", "r">>)
        escaped == ReplaceAll(e4, "\t", <<"\\", "t">>)
    IN  IF Len(v) = 0 THEN <<>>
        ELSE IF ~needsQuoting THEN v
        ELSE <<"\"">> \o escaped \o <<"\"">>

buildAssignmentLine(key, v) == key \o <<"=">> \o quoteValue(v)

----------------------------------------------------------------------------
(* String.prototype.localeCompare on keys made of [A-Za-z0-9_]: the ICU     *)
(* root collation compares the primary weights first ('_' before digits    *)
(* before letters, case ignored) and breaks ties by case, lower first.     *)

UpperChars == <<"A", "B", "C", "D", "E", "F", "G", "H", "I", "J", "K", "L", "M",
                "N", "O", "P", "Q", "R", "S", "T", "U", "V", "W", "X", "Y", "Z">>

LowerChars == <<"a", "b", "c", "d", "e", "f", "g", "h", "i", "j", "k", "l", "m",
                "n", "o", "p", "q", "r", "s", "t", "u", "v", "w", "x", "y", "z">>

IsUpper(c) == \E i \in 1..Len(UpperChars) : UpperChars[i] = c

\* c.toLowerCase() for one character
ToLowerChar(c) ==
    IF IsUpper(c) THEN LowerChars[CHOOSE i \in 1..Len(UpperChars) : UpperChars[i] = c] ELSE c

\* s.toLowerCase()
ToLowerCase(s) == [i \in 1..Len(s) |-> ToLowerChar(s[i])]

CollationOrder == <<"_", "0", "1", "2", "3", "4", "5", "6", "7", "8", "9">> \o LowerChars

PrimaryWeight(c) ==
    LET l == ToLowerChar(c)
    IN  IF \E i \in 1..Len(CollationOrder) : CollationOrder[i] = l
        THEN CHOOSE i \in 1..Len(CollationOrder) : CollationOrder[i] = l
        ELSE 0

TertiaryWeight(c) == IF IsUpper(c) THEN 1 ELSE 0

\* lexicographic comparison of two sequences of weights: -1, 0 or 1
RECURSIVE CompareWeights(_, _, _)
CompareWeights(a, b, i) ==
    IF i > Len(a) /\ i > Len(b) THEN 0
    ELSE IF i > Len(a) THEN -1
    ELSE IF i > Len(b) THEN 1
    ELSE IF a[i] < b[i] THEN -1
    ELSE IF a[i] > b[i] THEN 1
    ELSE CompareWeights(a, b, i + 1)

localeCompare(a, b) ==
    LET primary == CompareWeights([i \in 1..Len(a) |-> PrimaryWeight(a[i])],
                                  [i \in 1..Len(b) |-> PrimaryWeight(b[i])], 1)
    IN  IF primary # 0 THEN primary
        ELSE CompareWeights([i \in 1..Len(a) |-> TertiaryWeight(a[i])],
                            [i \in 1..Len(b) |-> TertiaryWeight(b[i])], 1)

\* Array.prototype.sort (stable) of keys with (a, b) => a.localeCompare(b)
RECURSIVE InsertKey(_, _)
InsertKey(sorted, k) ==
    IF Len(sorted) = 0 THEN <<k>>
    ELSE IF localeCompare(k, sorted[Len(sorted)]) >= 0 THEN Append(sorted, k)
    ELSE Append(InsertKey(SubSeq(sorted, 1, Len(sorted) - 1), k), sorted[Len(sorted)])

RECURSIVE SortKeysFrom(_, _, _)
SortKeysFrom(keys, i, sorted) ==
    IF i > Len(keys) THEN sorted ELSE SortKeysFrom(keys, i + 1, InsertKey(sorted, keys[i]))

\* the keys left in the order given
SortKeysAsGiven(keys) == keys

SortKeys(keys) == SortKeysFrom(keys, 1, <<>>)

\* some enumeration of a finite set (the iteration order of a Map's keys)
RECURSIVE SetToSeq(_)
SetToSeq(S) ==
    IF S = {} THEN <<>>
    ELSE LET x == CHOOSE y \in S : TRUE IN <<x>> \o SetToSeq(S \ {x})

----------------------------------------------------------------------------
(* fingerprint.ts and envsitter.ts: the matching engine.                   *)

\* HMAC-SHA-256 of the value keyed by the pepper, as an injective pairing
fingerprintValueHmacSha256(v, pepperBytes) ==
    [algorithm |-> "hmac-sha256", digestBytes |-> <<pepperBytes, v>>]

\* crypto.timingSafeEqual on two digests of equal length
timingSafeEqual(a, b) == a = b

Digits == {"0", "1", "2", "3", "4", "5", "6", "7", "8", "9"}

AllDigits(s) == Len(s) > 0 /\ \A i \in 1..Len(s) : s[i] \in Digits

\* /^[+-]?(?:\d+(?:\.\d+)?|\.\d+)$/.test(trimmed); every such text of the explored
\* lengths is a finite Number
isNumberLike(v) ==
    LET trimmed == Trim(v)
        unsigned == IF Len(trimmed) > 0 /\ trimmed[1] \in {"+", "-"}
                    THEN SliceFrom(trimmed, 1) ELSE trimmed
        dot == IndexOf(unsigned, ".", 0)
    IN  IF Len(trimmed) = 0 THEN FALSE
        ELSE IF dot = -1 THEN AllDigits(unsigned)
        ELSE /\ AllDigits(SliceFrom(unsigned, dot + 1))
             /\ (dot = 0 \/ AllDigits(Slice(unsigned, 0, dot)))

isBooleanLike(v) ==
    LET trimmed == ToLowerCase(Trim(v))
    IN  trimmed = <<"t", "r", "u", "e">> \/ trimmed = <<"f", "a", "l", "s", "e">>

\* the positions at or after `from` where the literal pattern occurs in v
Occurrences(v, pattern, from) ==
    {i \in from..(Len(v) - Len(pattern)) : SubSeq(v, i + 1, i + Len(pattern)) = pattern}

\* RegExp.prototype.test for a literal pattern: [match, lastIndex]; the flags "g"
\* and "y" start the search at lastIndex and move it
RegExpTest(regex, li, v) ==
    IF regex.flags = ""
    THEN [match |-> Occurrences(v, regex.source, 0) # {}, lastIndex |-> li]
    ELSE IF li > Len(v) THEN [match |-> FALSE, lastIndex |-> 0]
    ELSE LET hits == IF regex.flags = "y"
                     THEN Occurrences(v, regex.source, li) \cap {li}
                     ELSE Occurrences(v, regex.source, li)
         IN  IF hits = {} THEN [match |-> FALSE, lastIndex |-> 0]
             ELSE [match |-> TRUE, lastIndex |-> Min(hits) + Len(regex.source)]

\* [match, lastIndex] of matchValue(value, matcher)
matchValue(v, matcher, li) ==
    CASE matcher.op = "is_empty" -> [match |-> Len(v) = 0, lastIndex |-> li]
      [] matcher.op = "partial_match_prefix" ->
            [match |-> StartsWith(v, matcher.prefix), lastIndex |-> li]
      [] matcher.op = "partial_match_suffix" ->
            [match |-> EndsWith(v, matcher.suffix), lastIndex |-> li]
      [] matcher.op = "partial_match_regex" -> RegExpTest(matcher.regex, li, v)
      [] matcher.op = "is_number" -> [match |-> isNumberLike(v), lastIndex |-> li]
      [] matcher.op = "is_boolean" -> [match |-> isBooleanLike(v), lastIndex |-> li]
      [] matcher.op = "is_string" ->
            [match |-> ~isNumberLike(v) /\ ~isBooleanLike(v), lastIndex |-> li]

Returned(b, list, li) == [status |-> "returned", match |-> b, matches |-> list, lastIndex |-> li]

Threw(li) == [status |-> "threw", match |-> FALSE, matches |-> <<>>, lastIndex |-> li]

\* the digest comparison without timingSafeEqual: the length check alone
DigestsEqualLengthOnly(candidate, v, pepperBytes) ==
    LET a == fingerprintValueHmacSha256(candidate, pepperBytes).digestBytes
        b == fingerprintValueHmacSha256(v, pepperBytes).digestBytes
    IN  Len(a) = Len(b)

\* the comparison of the two digests in matchKey, matchKeyBulk and matchCandidatesByKey
DigestsEqual(candidate, v, pepperBytes) ==
    LET a == fingerprintValueHmacSha256(candidate, pepperBytes).digestBytes
        b == fingerprintValueHmacSha256(v, pepperBytes).digestBytes
    IN  Len(a) = Len(b) /\ timingSafeEqual(a, b)

\* matchKey reading a missing key as the empty value (snapshot.values.get(key) ?? '')
matchKeyMissingAsEmpty(snap, pep, key, matcher, li) ==
    LET v == IF key \in DOMAIN snap THEN snap[key] ELSE <<>>
    IN  IF matcher.op = "exists" THEN Returned(key \in DOMAIN snap, <<>>, li)
        ELSE IF matcher.op = "is_equal"
        THEN IF ~pep.ok THEN Threw(li)
             ELSE Returned(DigestsEqual(matcher.candidate, v, pep.pepperBytes), <<>>, li)
        ELSE LET m == matchValue(v, matcher, li)
             IN  Returned(m.match, <<>>, m.lastIndex)

matchKey(snap, pep, key, matcher, li) ==
    IF matcher.op = "exists" THEN Returned(key \in DOMAIN snap, <<>>, li)
    ELSE IF key \notin DOMAIN snap THEN Returned(FALSE, <<>>, li)
    ELSE IF matcher.op = "is_equal"
    THEN IF ~pep.ok THEN Threw(li)
         ELSE Returned(DigestsEqual(matcher.candidate, snap[key], pep.pepperBytes), <<>>, li)
    ELSE LET m == matchValue(snap[key], matcher, li)
         IN  Returned(m.match, <<>>, m.lastIndex)

KeyMatch(key, b) == [key |-> key, match |-> b]

\* the loop of matchKeyBulk for an is_equal matcher
RECURSIVE BulkEqualFrom(_, _, _, _, _, _)
BulkEqualFrom(snap, pepperBytes, keys, candidate, i, results) ==
    IF i > Len(keys) THEN results
    ELSE LET key == keys[i]
             m == IF key \notin DOMAIN snap THEN FALSE
                  ELSE DigestsEqual(candidate, snap[key], pepperBytes)
         IN  BulkEqualFrom(snap, pepperBytes, keys, candidate, i + 1,
                           Append(results, KeyMatch(key, m)))

\* the loop of matchKeyBulk pushing no entry for a missing key
RECURSIVE BulkValueFromSkipMissing(_, _, _, _, _, _)
BulkValueFromSkipMissing(snap, keys, matcher, i, li, results) ==
    IF i > Len(keys) THEN Returned(FALSE, results, li)
    ELSE LET key == keys[i]
         IN  IF key \notin DOMAIN snap
             THEN BulkValueFromSkipMissing(snap, keys, matcher, i + 1, li, results)
             ELSE IF matcher.op = "exists"
             THEN BulkValueFromSkipMissing(snap, keys, matcher, i + 1, li,
                                           Append(results, KeyMatch(key, TRUE)))
             ELSE LET m == matchValue(snap[key], matcher, li)
                  IN  BulkValueFromSkipMissing(snap, keys, matcher, i + 1, m.lastIndex,
                                               Append(results, KeyMatch(key, m.match)))

\* the loop of matchKeyBulk for every other matcher
RECURSIVE BulkValueFrom(_, _, _, _, _, _)
BulkValueFrom(snap, keys, matcher, i, li, results) ==
    IF i > Len(keys) THEN Returned(FALSE, results, li)
    ELSE LET key == keys[i]
         IN  IF matcher.op = "exists"
             THEN BulkValueFrom(snap, keys, matcher, i + 1, li,
                                Append(results, KeyMatch(key, key \in DOMAIN snap)))
             ELSE IF key \notin DOMAIN snap
             THEN BulkValueFrom(snap, keys, matcher, i + 1, li,
                                Append(results, KeyMatch(key, FALSE)))
             ELSE LET m == matchValue(snap[key], matcher, li)
                  IN  BulkValueFrom(snap, keys, matcher, i + 1, m.lastIndex,
                                    Append(results, KeyMatch(key, m.match)))

matchKeyBulk(snap, pep, keys, matcher, li) ==
    IF matcher.op = "is_equal"
    THEN IF ~pep.ok THEN Threw(li)
         ELSE Returned(FALSE,
                       BulkEqualFrom(snap, pep.pepperBytes, keys, matcher.candidate, 1, <<>>), li)
    ELSE BulkValueFrom(snap, keys, matcher, 1, li, <<>>)

listKeys(snap) == SortKeys(SetToSeq(DOMAIN snap))

matchKeyAll(snap, pep, matcher, li) == matchKeyBulk(snap, pep, listKeys(snap), matcher, li)

matchCandidate(snap, pep, key, candidate, li) ==
    matchKey(snap, pep, key, [op |-> "is_equal", candidate |-> candidate], li)

\* the loop of matchCandidatesByKey over Object.entries(candidatesByKey)
RECURSIVE ByKeyFrom(_, _, _, _, _)
ByKeyFrom(snap, pepperBytes, entries, i, results) ==
    IF i > Len(entries) THEN results
    ELSE LET key == entries[i][1]
             m == IF key \notin DOMAIN snap THEN FALSE
                  ELSE DigestsEqual(entries[i][2], snap[key], pepperBytes)
         IN  ByKeyFrom(snap, pepperBytes, entries, i + 1, Append(results, KeyMatch(key, m)))

matchCandidatesByKey(snap, pep, entries, li) ==
    IF ~pep.ok THEN Threw(li)
    ELSE Returned(FALSE, ByKeyFrom(snap, pep.pepperBytes, entries, 1, <<>>), li)

----------------------------------------------------------------------------
(* dotenv/edit.ts: the mutation engine (copy, annotate, format).  An        *)
(* optional argument or field is <<>> (undefined) or <<x>>.                 *)

IsAssignment(l) == l.kind = "assignment"

listAssignments(docLines) == SelectSeq(docLines, IsAssignment)

\* <<the last assignment of the key>>, or <<>> when there is none
lastAssignmentForKey(lines, key) ==
    LET hits == {i \in 1..Len(lines) : lines[i].key = key}
    IN  IF hits = {} THEN <<>> ELSE <<lines[Max(hits)]>>

\* s.split(c) for a one-character separator c
RECURSIVE SplitOnFrom(_, _, _, _, _)
SplitOnFrom(s, c, i, cur, acc) ==
    IF i > Len(s) THEN Append(acc, cur)
    ELSE IF s[i] = c THEN SplitOnFrom(s, c, i + 1, <<>>, Append(acc, cur))
    ELSE SplitOnFrom(s, c, i + 1, Append(cur, s[i]), acc)

SplitOn(s, c) == SplitOnFrom(s, c, 1, <<>>, <<>>)

\* new Map()
EmptyMap == [k \in {} |-> <<>>]

\* map.set(k, v)
MapSet(map, k, v) == [x \in (DOMAIN map) \cup {k} |-> IF x = k THEN v ELSE map[x]]

\* the loop of parseRenameMap over raw.split(',')
RECURSIVE RenameFrom(_, _, _)
RenameFrom(parts, i, map) ==
    IF i > Len(parts) THEN map
    ELSE LET trimmed == Trim(parts[i])
             pair == SplitOn(trimmed, "=")
             fromKey == Trim(pair[1])
             toKey == IF Len(pair) >= 2 THEN Trim(pair[2]) ELSE <<>>
         IN  IF Len(trimmed) = 0 \/ Len(fromKey) = 0 \/ Len(toKey) = 0
             THEN RenameFrom(parts, i + 1, map)
             ELSE RenameFrom(parts, i + 1, MapSet(map, fromKey, toKey))

\* raw is the text given, or <<>> for an undefined or empty one
parseRenameMap(raw) ==
    IF Len(raw) = 0 THEN EmptyMap ELSE RenameFrom(SplitOn(raw, ","), 1, EmptyMap)

ExportPrefix == <<"e", "x", "p", "o", "r", "t", " ">>

withNewKey(source, newKey) ==
    source.leadingWhitespace \o (IF source.exported THEN ExportPrefix ELSE <<>>)
        \o newKey \o source.beforeEqWhitespace \o <<"=">> \o source.afterEqRaw

CopyPlanItem(fromKey, toKey, action, fromLine, toLine) ==
    [fromKey |-> fromKey, toKey |-> toKey, action |-> action,
     fromLine |-> fromLine, toLine |-> toLine]

\* the loop over options.keys adding the trimmed, non-empty keys to the Set
RECURSIVE RequestedFrom(_, _, _)
RequestedFrom(keys, i, requested) ==
    IF i > Len(keys) THEN requested
    ELSE LET trimmed == Trim(keys[i])
         IN  IF Len(trimmed) = 0 \/ \E j \in 1..Len(requested) : requested[j] = trimmed
             THEN RequestedFrom(keys, i + 1, requested)
             ELSE RequestedFrom(keys, i + 1, Append(requested, trimmed))

\* [...requestedKeys]: the distinct requested keys in insertion order
requestedKeys(keys, sourceAssignments) ==
    IF keys # <<>> THEN RequestedFrom(keys[1], 1, <<>>)
    ELSE RequestedFrom([i \in 1..Len(sourceAssignments) |-> sourceAssignments[i].key], 1, <<>>)

\* { kind: 'assignment', ...sourceLine, key: toKey, raw: newRaw }
CopiedLine(sourceLine, fromKey, toKey) ==
    [sourceLine EXCEPT !.key = toKey,
                       !.raw = IF toKey = fromKey THEN sourceLine.raw
                               ELSE withNewKey(sourceLine, toKey)]

\* the conflict step with the error policy replacing the line all the same
OnConflictErrorOverwrites(st, onConflict, fromKey, toKey, sourceLine, targetLine) ==
    IF onConflict = "skip"
    THEN [st EXCEPT !.plan = Append(@, CopyPlanItem(fromKey, toKey, "skip",
                                        <<sourceLine.line>>, <<targetLine.line>>))]
    ELSE LET hits == {i \in 1..Len(st.lines) :
                         st.lines[i].kind = "assignment" /\ st.lines[i].key = toKey}
             action == IF onConflict = "error" THEN "conflict" ELSE "overwrite"
         IN  IF hits = {} THEN st
             ELSE [st EXCEPT !.lines[Max(hits)] = CopiedLine(sourceLine, fromKey, toKey),
                             !.plan = Append(@, CopyPlanItem(fromKey, toKey, action,
                                                 <<sourceLine.line>>,
                                                 <<st.lines[Max(hits)].line>>)),
                             !.hasChanges = (onConflict # "error") \/ @]

\* the conflict step with the overwrite policy replacing the first assignment of the key
OnConflictFirstOccurrence(st, onConflict, fromKey, toKey, sourceLine, targetLine) ==
    IF onConflict = "skip"
    THEN [st EXCEPT !.plan = Append(@, CopyPlanItem(fromKey, toKey, "skip",
                                        <<sourceLine.line>>, <<targetLine.line>>))]
    ELSE IF onConflict = "error"
    THEN [st EXCEPT !.plan = Append(@, CopyPlanItem(fromKey, toKey, "conflict",
                                        <<sourceLine.line>>, <<targetLine.line>>))]
    ELSE LET hits == {i \in 1..Len(st.lines) :
                         st.lines[i].kind = "assignment" /\ st.lines[i].key = toKey}
         IN  IF hits = {} THEN st
             ELSE [st EXCEPT !.lines[Min(hits)] = CopiedLine(sourceLine, fromKey, toKey),
                             !.plan = Append(@, CopyPlanItem(fromKey, toKey, "overwrite",
                                                 <<sourceLine.line>>,
                                                 <<st.lines[Max(hits)].line>>)),
                             !.hasChanges = TRUE]

\* the steps of the copy loop for a key the target already assigns
OnConflict(st, onConflict, fromKey, toKey, sourceLine, targetLine) ==
    IF onConflict = "skip"
    THEN [st EXCEPT !.plan = Append(@, CopyPlanItem(fromKey, toKey, "skip",
                                        <<sourceLine.line>>, <<targetLine.line>>))]
    ELSE IF onConflict = "error"
    THEN [st EXCEPT !.plan = Append(@, CopyPlanItem(fromKey, toKey, "conflict",
                                        <<sourceLine.line>>, <<targetLine.line>>))]
    ELSE LET hits == {i \in 1..Len(st.lines) :
                         st.lines[i].kind = "assignment" /\ st.lines[i].key = toKey}
         IN  IF hits = {} THEN st
             ELSE [st EXCEPT !.lines[Max(hits)] = CopiedLine(sourceLine, fromKey, toKey),
                             !.plan = Append(@, CopyPlanItem(fromKey, toKey, "overwrite",
                                                 <<sourceLine.line>>,
                                                 <<st.lines[Max(hits)].line>>)),
                             !.hasChanges = TRUE]

\* the body of the copy loop for a key that passed the filters
CopyKey(st, onConflict, fromKey, sourceAssignments, targetAssignments, renameMap) ==
    LET toKey == IF fromKey \in DOMAIN renameMap THEN renameMap[fromKey] ELSE fromKey
        sourceLine == lastAssignmentForKey(sourceAssignments, fromKey)
        targetLine == lastAssignmentForKey(targetAssignments, toKey)
    IN  IF sourceLine = <<>>
        THEN [st EXCEPT !.plan = Append(@, CopyPlanItem(fromKey, toKey, "missing_source",
                                            <<>>, <<>>))]
        ELSE IF targetLine = <<>>
        THEN [st EXCEPT !.lines = Append(@, CopiedLine(sourceLine[1], fromKey, toKey)),
                        !.plan = Append(@, CopyPlanItem(fromKey, toKey, "copy",
                                            <<sourceLine[1].line>>, <<>>)),
                        !.hasChanges = TRUE]
        ELSE OnConflict(st, onConflict, fromKey, toKey, sourceLine[1], targetLine[1])

\* the copy loop over the sorted keys; the include and exclude RegExp objects keep
\* their lastIndex from one test to the next
RECURSIVE CopyFrom(_, _, _, _, _, _, _)
CopyFrom(keys, i, st, opts, sourceAssignments, targetAssignments, renameMap) ==
    IF i > Len(keys) THEN st
    ELSE LET fromKey == keys[i]
             inc == IF opts.include = <<>>
                    THEN [match |-> TRUE, lastIndex |-> st.includeLast]
                    ELSE RegExpTest(opts.include[1], st.includeLast, fromKey)
             exc == IF opts.exclude = <<>> \/ ~inc.match
                    THEN [match |-> FALSE, lastIndex |-> st.excludeLast]
                    ELSE RegExpTest(opts.exclude[1], st.excludeLast, fromKey)
             tested == [st EXCEPT !.includeLast = inc.lastIndex,
                                  !.excludeLast = exc.lastIndex]
         IN  IF ~inc.match \/ exc.match
             THEN CopyFrom(keys, i + 1, tested, opts,
                           sourceAssignments, targetAssignments, renameMap)
             ELSE CopyFrom(keys, i + 1,
                           CopyKey(tested, opts.onConflict, fromKey,
                                   sourceAssignments, targetAssignments, renameMap),
                           opts, sourceAssignments, targetAssignments, renameMap)

TagIssues(issues, tag) ==
    [i \in 1..Len(issues) |-> [issues[i] EXCEPT !.message = tag \o ": " \o @]]

\* the result object copyDotenvKeys returns once the loop has run
CopyResult(sourceDoc, targetDoc, st) ==
    [output |-> stringifyDotenvDocument([targetDoc EXCEPT !.lines = st.lines]),
     issues |-> TagIssues(sourceDoc.issues, "source")
                    \o TagIssues(targetDoc.issues, "target"),
     plan |-> st.plan,
     hasChanges |-> st.hasChanges]

\* copyDotenvKeys once both assignment lists and the rename map are there
CopyAssignments(sourceDoc, targetDoc, opts, sourceAssignments, targetAssignments, renameMap) ==
    CopyResult(sourceDoc, targetDoc,
               CopyFrom(SortKeys(requestedKeys(opts.keys, sourceAssignments)), 1,
                        [lines |-> targetDoc.lines, plan |-> <<>>, hasChanges |-> FALSE,
                         includeLast |-> 0, excludeLast |-> 0],
                        opts, sourceAssignments, targetAssignments, renameMap))

\* copyDotenvKeys once both texts are parsed
CopyParsed(sourceDoc, targetDoc, opts) ==
    CopyAssignments(sourceDoc, targetDoc, opts, listAssignments(sourceDoc.lines),
                    listAssignments(targetDoc.lines), parseRenameMap(opts.rename))

copyDotenvKeys(source, target, opts) ==
    CopyParsed(parseDotenvDocument(source), parseDotenvDocument(target), opts)

\* '# envsitter:'
EnvsitterMark == <<"#", " ", "e", "n", "v", "s", "i", "t", "t", "e", "r", ":">>

AnnotatePlan(key, action, keyLines, line) ==
    [key |-> key, action |-> action, keyLines |-> keyLines, line |-> line]

\* the result of a call that leaves the text as it is
AnnotateUnchanged(d, cont, key, action, keyLines) ==
    [output |-> cont, issues |-> d.issues,
     plan |-> AnnotatePlan(key, action, keyLines, <<>>), hasChanges |-> FALSE]

\* annotateDotenvKey once the target assignment and its index in doc.lines are known
AnnotateAt(d, key, target, targetIndex, desiredRaw) ==
    IF /\ targetIndex > 1
       /\ d.lines[targetIndex - 1].kind = "comment"
       /\ StartsWith(TrimStart(d.lines[targetIndex - 1].raw), EnvsitterMark)
    THEN [output |-> stringifyDotenvDocument(
                         [d EXCEPT !.lines[targetIndex - 1].raw = desiredRaw]),
          issues |-> d.issues,
          plan |-> AnnotatePlan(key, "updated", <<>>, <<target.line>>),
          hasChanges |-> TRUE]
    ELSE [output |-> stringifyDotenvDocument(
                         [d EXCEPT !.lines =
                             SubSeq(@, 1, targetIndex - 1)
                             \o <<[kind |-> "comment", line |-> target.line,
                                   raw |-> desiredRaw]>>
                             \o SubSeq(@, targetIndex, Len(@))]),
          issues |-> d.issues,
          plan |-> AnnotatePlan(key, "inserted", <<>>, <<target.line>>),
          hasChanges |-> TRUE]

\* annotateDotenvKey once the target assignment is chosen
AnnotateTarget(d, cont, key, comment, target, found) ==
    IF found = {} THEN AnnotateUnchanged(d, cont, key, "not_found", <<>>)
    ELSE AnnotateAt(d, key, target, Min(found),
                    target.leadingWhitespace \o EnvsitterMark \o <<" ">> \o comment)

\* annotateDotenvKey once the assignments of the key are listed
AnnotateAssignments(d, cont, key, comment, line, assignments, matched) ==
    IF Len(assignments) = 0 THEN AnnotateUnchanged(d, cont, key, "not_found", <<>>)
    ELSE IF (line # <<>> /\ Len(matched) = 0) \/ (line = <<>> /\ Len(assignments) > 1)
    THEN AnnotateUnchanged(d, cont, key, "ambiguous",
                           [i \in 1..Len(assignments) |-> assignments[i].line])
    ELSE LET target == IF line # <<>> THEN matched[1] ELSE assignments[1]
         IN  AnnotateTarget(d, cont, key, comment, target,
                            {i \in 1..Len(d.lines) :
                                d.lines[i].kind = "assignment" /\ d.lines[i].line = target.line})

\* annotateDotenvKey once the text is parsed
AnnotateParsed(d, cont, key, comment, line, assignments) ==
    AnnotateAssignments(d, cont, key, comment, line, assignments,
                        IF line = <<>> THEN <<>>
                        ELSE SelectSeq(assignments, LAMBDA a : a.line = line[1]))

annotateDotenvKey(cont, key, comment, line) ==
    LET d == parseDotenvDocument(cont)
    IN  AnnotateParsed(d, cont, key, comment, line,
                       SelectSeq(listAssignments(d.lines), LAMBDA a : a.key = key))

\* the loop of splitIntoSections: a blank line closes the section it ends
RECURSIVE SectionsFrom(_, _, _, _)
SectionsFrom(docLines, i, current, sections) ==
    IF i > Len(docLines) THEN Append(sections, current)
    ELSE IF docLines[i].kind = "blank"
    THEN SectionsFrom(docLines, i + 1, <<>>, Append(sections, Append(current, docLines[i])))
    ELSE SectionsFrom(docLines, i + 1, Append(current, docLines[i]), sections)

\* a mutant of splitIntoSections: blank lines do not close a section
splitIntoOneSection(docLines) == <<docLines>>

splitIntoSections(docLines) == SectionsFrom(docLines, 1, <<>>, <<>>)

\* the first loop of formatSection: [header, rest]
RECURSIVE HeaderFrom(_, _, _, _, _)
HeaderFrom(sectionLines, i, sawAssignment, header, rest) ==
    IF i > Len(sectionLines) THEN [header |-> header, rest |-> rest]
    ELSE LET l == sectionLines[i]
         IN  IF ~sawAssignment /\ l.kind = "comment"
             THEN HeaderFrom(sectionLines, i + 1, sawAssignment, Append(header, l), rest)
             ELSE HeaderFrom(sectionLines, i + 1, sawAssignment \/ l.kind = "assignment",
                             header, Append(rest, l))

\* the second loop of formatSection: [blocks, trailing]
RECURSIVE BlocksFrom(_, _, _, _, _)
BlocksFrom(rest, i, pendingComments, blocks, trailing) ==
    IF i > Len(rest) THEN [blocks |-> blocks, trailing |-> trailing \o pendingComments]
    ELSE LET l == rest[i]
         IN  IF l.kind = "comment"
             THEN BlocksFrom(rest, i + 1, Append(pendingComments, l), blocks, trailing)
             ELSE IF l.kind = "assignment"
             THEN BlocksFrom(rest, i + 1, <<>>,
                             Append(blocks, [key |-> l.key, lines |-> Append(pendingComments, l)]),
                             trailing)
             ELSE BlocksFrom(rest, i + 1, <<>>, blocks, Append(trailing \o pendingComments, l))

\* an insertion that puts a block before the blocks of an equal key (an unstable sort)
RECURSIVE InsertBlockBeforeEqual(_, _)
InsertBlockBeforeEqual(sorted, b) ==
    IF Len(sorted) = 0 THEN <<b>>
    ELSE IF localeCompare(b.key, sorted[Len(sorted)].key) > 0 THEN Append(sorted, b)
    ELSE Append(InsertBlockBeforeEqual(SubSeq(sorted, 1, Len(sorted) - 1), b),
                sorted[Len(sorted)])

\* blocks.sort((a, b) => a.key.localeCompare(b.key)), a stable sort: one insertion
RECURSIVE InsertBlock(_, _)
InsertBlock(sorted, b) ==
    IF Len(sorted) = 0 THEN <<b>>
    ELSE IF localeCompare(b.key, sorted[Len(sorted)].key) >= 0 THEN Append(sorted, b)
    ELSE Append(InsertBlock(SubSeq(sorted, 1, Len(sorted) - 1), b), sorted[Len(sorted)])

RECURSIVE SortBlocksFrom(_, _, _)
SortBlocksFrom(blocks, i, sorted) ==
    IF i > Len(blocks) THEN sorted
    ELSE SortBlocksFrom(blocks, i + 1, InsertBlock(sorted, blocks[i]))

SortBlocks(blocks) == SortBlocksFrom(blocks, 1, <<>>)

\* the concatenation of a sequence of sequences (flatMap)
RECURSIVE Flatten(_)
Flatten(seqs) == IF Len(seqs) = 0 THEN <<>> ELSE Head(seqs) \o Flatten(Tail(seqs))

\* formatSection once the second loop has run
FormatBlocks(header, bt) ==
    LET sorted == SortBlocks(bt.blocks)
    IN  header \o Flatten([i \in 1..Len(sorted) |-> sorted[i].lines]) \o bt.trailing

\* formatSection once the first loop has run
FormatRest(hr) == FormatBlocks(hr.header, BlocksFrom(hr.rest, 1, <<>>, <<>>, <<>>))

formatSection(sectionLines, sort) ==
    IF sort = "none" THEN sectionLines
    ELSE FormatRest(HeaderFrom(sectionLines, 1, FALSE, <<>>, <<>>))

\* sections.flatMap((s) => formatSection(s.lines, options.sort))
FormatSections(sections, sort) ==
    Flatten([i \in 1..Len(sections) |-> formatSection(sections[i], sort)])

\* the result object formatDotenv returns
FormatResult(d, cont, out) == [output |-> out, issues |-> d.issues, hasChanges |-> out # cont]

\* formatDotenv once the text is parsed
FormatParsed(d, cont, mode, sort) ==
    IF sort = "none" THEN [output |-> cont, issues |-> d.issues, hasChanges |-> FALSE]
    ELSE FormatResult(d, cont,
             stringifyDotenvDocument(
                 [d EXCEPT !.lines = IF mode = "global" THEN formatSection(@, sort)
                                     ELSE FormatSections(splitIntoSections(@), sort)]))

formatDotenv(cont, mode, sort) == FormatParsed(parseDotenvDocument(cont), cont, mode, sort)

----------------------------------------------------------------------------
(* The single-key mutations add, set, unset and delete of the editing       *)
(* engine, as section 4.3 of the specification describes them: the file     *)
(* operations import them from dotenv/edit.js.                              *)

KeyMutationPlanItem(key, action, line) == [key |-> key, action |-> action, line |-> line]

KeyMutationResult(docu, lines, plan, hasChanges) ==
    [output |-> stringifyDotenvDocument([docu EXCEPT !.lines = lines]),
     issues |-> docu.issues, plan |-> plan, hasChanges |-> hasChanges]

\* a fresh assignment line with an auto-quoted value
NewAssignment(key, v, line) ==
    [kind |-> "assignment", line |-> line, raw |-> buildAssignmentLine(key, v),
     leadingWhitespace |-> <<>>, exported |-> FALSE, key |-> key, keyColumn |-> 1,
     beforeEqWhitespace |-> <<>>, afterEqRaw |-> quoteValue(v),
     quote |-> IF quoteValue(v) = v THEN "none" ELSE "double", value |-> v]

\* the assignment with its value rewritten: raw and afterEqRaw regenerated together
WithNewValue(assignment, v) ==
    [assignment EXCEPT
        !.raw = assignment.leadingWhitespace
                    \o (IF assignment.exported THEN ExportPrefix ELSE <<>>)
                    \o assignment.key \o assignment.beforeEqWhitespace \o <<"=">>
                    \o quoteValue(v),
        !.afterEqRaw = quoteValue(v),
        !.quote = IF quoteValue(v) = v THEN "none" ELSE "double",
        !.value = v]

\* the lines with the line numbered as the given assignment replaced
ReplaceLine(lines, old, new) ==
    [i \in 1..Len(lines) |-> IF lines[i].line = old.line THEN new ELSE lines[i]]

AddParsed(docu, key, v, existing) ==
    IF existing # <<>>
    THEN KeyMutationResult(docu, docu.lines,
                           KeyMutationPlanItem(key, "key_exists", <<existing[1].line>>), FALSE)
    ELSE KeyMutationResult(docu, Append(docu.lines, NewAssignment(key, v, Len(docu.lines) + 1)),
                           KeyMutationPlanItem(key, "added", <<>>), TRUE)

AddDocument(docu, key, v) ==
    AddParsed(docu, key, v, lastAssignmentForKey(listAssignments(docu.lines), key))

addDotenvKey(cont, key, v) == AddDocument(parseDotenvDocument(cont), key, v)

SetParsed(docu, key, v, existing) ==
    IF existing = <<>>
    THEN KeyMutationResult(docu, Append(docu.lines, NewAssignment(key, v, Len(docu.lines) + 1)),
                           KeyMutationPlanItem(key, "added", <<>>), TRUE)
    ELSE IF existing[1].value = v
    THEN KeyMutationResult(docu, docu.lines,
                           KeyMutationPlanItem(key, "no_change", <<existing[1].line>>), FALSE)
    ELSE KeyMutationResult(docu, ReplaceLine(docu.lines, existing[1], WithNewValue(existing[1], v)),
                           KeyMutationPlanItem(key, "updated", <<existing[1].line>>), TRUE)

SetDocument(docu, key, v) ==
    SetParsed(docu, key, v, lastAssignmentForKey(listAssignments(docu.lines), key))

setDotenvKey(cont, key, v) == SetDocument(parseDotenvDocument(cont), key, v)

UnsetParsed(docu, key, existing) ==
    IF existing = <<>>
    THEN KeyMutationResult(docu, docu.lines, KeyMutationPlanItem(key, "not_found", <<>>), FALSE)
    ELSE IF existing[1].value = <<>>
    THEN KeyMutationResult(docu, docu.lines,
                           KeyMutationPlanItem(key, "no_change", <<existing[1].line>>), FALSE)
    ELSE KeyMutationResult(docu, ReplaceLine(docu.lines, existing[1], WithNewValue(existing[1], <<>>)),
                           KeyMutationPlanItem(key, "unset", <<existing[1].line>>), TRUE)

UnsetDocument(docu, key) ==
    UnsetParsed(docu, key, lastAssignmentForKey(listAssignments(docu.lines), key))

unsetDotenvKey(cont, key) == UnsetDocument(parseDotenvDocument(cont), key)

\* the plan entry of one key to delete
DeletePlanItem(lines, key) ==
    IF \E i \in 1..Len(lines) : IsAssignment(lines[i]) /\ lines[i].key = key
    THEN KeyMutationPlanItem(key, "deleted", <<>>)
    ELSE KeyMutationPlanItem(key, "not_found", <<>>)

DeleteDocument(docu, keys) ==
    [output |-> stringifyDotenvDocument(
                    [docu EXCEPT !.lines = SelectSeq(docu.lines,
                        LAMBDA l : ~(IsAssignment(l) /\ \E i \in 1..Len(keys) : l.key = keys[i]))]),
     issues |-> docu.issues,
     plan |-> [i \in 1..Len(keys) |-> DeletePlanItem(docu.lines, keys[i])],
     hasChanges |-> \E i \in 1..Len(keys) :
                        DeletePlanItem(docu.lines, keys[i]).action = "deleted"]

deleteDotenvKeys(cont, keys) == DeleteDocument(parseDotenvDocument(cont), keys)

----------------------------------------------------------------------------
(* File operations (file-ops.ts) over a file system: a map path -> text.    *)

FsCall(op, path) == [op |-> op, path |-> path]

\* readFile(path, 'utf8'): <<the text>>, or <<>> when the call throws ENOENT
readFile(fs, path) == IF path \in DOMAIN fs THEN <<fs[path]>> ELSE <<>>

\* dotenv/io.ts readTextFileOrEmpty
readTextFileOrEmpty(fs, path) == IF path \in DOMAIN fs THEN fs[path] ELSE <<>>

\* dotenv/io.ts writeTextFileAtomic: the calls it makes, and the file system after them
\* (the temporary directory is gone again)
WriteCalls(filePath) ==
    <<FsCall("mkdtemp", filePath), FsCall("writeFile", filePath),
      FsCall("rename", filePath), FsCall("rm", filePath)>>

writeTextFileAtomic(fs, filePath, cont) == MapSet(fs, filePath, cont)

\* a mutant of WillWrite: writing is the default
WillWriteUnlessFalse(opts) == opts.write # <<FALSE>>

\* const willWrite = options.write === true
WillWrite(opts) == opts.write = <<TRUE>>

\* what a file operation that threw leaves behind
Thrown(code) == [status |-> "error", code |-> code]

\* the result object of a file operation
FileOpResult(opts, r, wrote, plan) ==
    [status |-> "ok", willWrite |-> WillWrite(opts), wrote |-> wrote,
     hasChanges |-> r.hasChanges, issues |-> r.issues, plan |-> plan]

\* the tail every single-file operation shares: write when asked to and when the text
\* changed, then return the result
WriteAndReturn(opts, r, plan) ==
    /\ files' = IF WillWrite(opts) /\ r.hasChanges
                THEN writeTextFileAtomic(files, opts.file, r.output) ELSE files
    /\ fsLog' = fsLog \o <<FsCall("readFile", opts.file)>>
                      \o (IF WillWrite(opts) /\ r.hasChanges THEN WriteCalls(opts.file) ELSE <<>>)
    /\ outcomes' = Append(outcomes, FileOpResult(opts, r, WillWrite(opts) /\ r.hasChanges, plan))

\* readFile threw: nothing else happens
ReadThrows(path) ==
    /\ files' = files
    /\ fsLog' = Append(fsLog, FsCall("readFile", path))
    /\ outcomes' = Append(outcomes, Thrown("ENOENT"))

\* the policy copyEnvFileKeys passes on: options.onConflict ?? 'error'
CopyPolicy(opts) == IF opts.onConflict = <<>> THEN "error" ELSE opts.onConflict[1]

\* a mutant of HasConflicts: conflicts do not hold the write back
HasConflictsIgnored(plan) == FALSE

\* const conflicts = result.plan.some((p) => p.action === 'conflict')
HasConflicts(plan) == \E i \in 1..Len(plan) : plan[i].action = "conflict"

----------------------------------------------------------------------------
(* pepper.ts: resolvePepper over process.env and the file system.  Bytes    *)
(* are numbers 0..255; the encodings are those of the runtime.              *)

\* a string element standing for U+00E9, two bytes in UTF-8
EAcute == "EACUTE"

\* new TextEncoder().encode(s), on the characters the environments use
Utf8Char(c) ==
    IF c = "p" THEN <<112>> ELSE IF c = "q" THEN <<113>> ELSE IF c = " " THEN <<32>>
    ELSE IF c = EAcute THEN <<195, 169>> ELSE <<63>>

RECURSIVE Utf8From(_, _, _)
Utf8From(s, i, acc) ==
    IF i > Len(s) THEN acc ELSE Utf8From(s, i + 1, acc \o Utf8Char(s[i]))

utf8Encode(s) == Utf8From(s, 1, <<>>)

Base64Chars ==
    <<"A", "B", "C", "D", "E", "F", "G", "H", "I", "J", "K", "L", "M", "N", "O", "P",
      "Q", "R", "S", "T", "U", "V", "W", "X", "Y", "Z", "a", "b", "c", "d", "e", "f",
      "g", "h", "i", "j", "k", "l", "m", "n", "o", "p", "q", "r", "s", "t", "u", "v",
      "w", "x", "y", "z", "0", "1", "2", "3", "4", "5", "6", "7", "8", "9", "+", "/">>

\* the base64 character of a six-bit number
Base64Char(n) == Base64Chars[n + 1]

\* the six-bit number of a base64 character
Base64Index(c) == (CHOOSE i \in 1..64 : Base64Chars[i] = c) - 1

\* buf.toString('base64'): three bytes give four characters, the rest is padded
RECURSIVE Base64EncodeFrom(_, _, _)
Base64EncodeFrom(b, i, acc) ==
    IF i > Len(b) THEN acc
    ELSE IF i + 2 <= Len(b)
    THEN Base64EncodeFrom(b, i + 3,
             acc \o <<Base64Char(b[i] \div 4),
                      Base64Char((b[i] % 4) * 16 + b[i + 1] \div 16),
                      Base64Char((b[i + 1] % 16) * 4 + b[i + 2] \div 64),
                      Base64Char(b[i + 2] % 64)>>)
    ELSE IF i + 1 = Len(b)
    THEN acc \o <<Base64Char(b[i] \div 4),
                  Base64Char((b[i] % 4) * 16 + b[i + 1] \div 16),
                  Base64Char((b[i + 1] % 16) * 4), "=">>
    ELSE acc \o <<Base64Char(b[i] \div 4), Base64Char((b[i] % 4) * 16), "=", "=">>

base64Encode(b) == Base64EncodeFrom(b, 1, <<>>)

\* the base64 characters Buffer.from(s, 'base64') decodes: it stops at the padding and
\* skips what is no base64 character
Base64Part(s) ==
    SelectSeq(Slice(s, 0, IF IndexOf(s, "=", 0) = -1 THEN Len(s) ELSE IndexOf(s, "=", 0)),
              LAMBDA c : \E k \in 1..64 : Base64Chars[k] = c)

SextetsOf(part) == [i \in 1..Len(part) |-> Base64Index(part[i])]

Sextets(s) == SextetsOf(Base64Part(s))

RECURSIVE Base64DecodeFrom(_, _, _)
Base64DecodeFrom(x, i, acc) ==
    IF i + 3 <= Len(x)
    THEN Base64DecodeFrom(x, i + 4,
             acc \o <<x[i] * 4 + x[i + 1] \div 16,
                      (x[i + 1] % 16) * 16 + x[i + 2] \div 4,
                      (x[i + 2] % 4) * 64 + x[i + 3]>>)
    ELSE IF i + 2 = Len(x)
    THEN acc \o <<x[i] * 4 + x[i + 1] \div 16, (x[i + 1] % 16) * 16 + x[i + 2] \div 4>>
    ELSE IF i + 1 = Len(x)
    THEN acc \o <<x[i] * 4 + x[i + 1] \div 16>>
    ELSE acc

\* Buffer.from(s, 'base64')
base64Decode(s) == Base64DecodeFrom(Sextets(s), 1, <<>>)

\* the least number of bytes a pepper file must decode to
MinPepperBytes == 16

\* the number of random bytes of a created pepper
PepperLength == 32

\* options.envVarNames ?? ['ENVSITTER_PEPPER', 'ENV_SITTER_PEPPER']
DefaultEnvVarNames == <<"ENVSITTER_PEPPER", "ENV_SITTER_PEPPER">>

\* join(process.cwd(), '.envsitter', 'pepper')
defaultPepperFilePath == ".envsitter/pepper"

\* a mutant of getPepperFromEnv: the last non-empty value wins
getPepperFromEnvLast(e, envVarNames) ==
    LET set == {i \in 1..Len(envVarNames) :
                   envVarNames[i] \in DOMAIN e /\ Len(e[envVarNames[i]]) > 0}
    IN  IF set = {} THEN <<>> ELSE <<e[envVarNames[Max(set)]]>>

\* <<the first non-empty value>>, or <<>> (undefined)
getPepperFromEnv(e, envVarNames) ==
    LET set == {i \in 1..Len(envVarNames) :
                   envVarNames[i] \in DOMAIN e /\ Len(e[envVarNames[i]]) > 0}
    IN  IF set = {} THEN <<>> ELSE <<e[envVarNames[Min(set)]]>>

PepperBytes(bytes) == [status |-> "ok", pepperBytes |-> bytes]

\* parsePepperFileContentToBytes once the trimmed text is decoded
PepperFromDecoded(trimmed, decoded) ==
    IF Len(trimmed) = 0 THEN Thrown("Pepper file is empty")
    ELSE IF Len(decoded) < MinPepperBytes THEN Thrown("Pepper file content is too short")
    ELSE PepperBytes(decoded)

parsePepperFileContentToBytes(content) ==
    PepperFromDecoded(Trim(content), base64Decode(Trim(content)))

PepperResult(bytes, source, pepperFilePath) ==
    [status |-> "ok", pepperBytes |-> bytes, source |-> source,
     pepperFilePath |-> pepperFilePath]

\* the body of the try block: readFile, then parsePepperFileContentToBytes
ReadPepper(fs, path) ==
    IF path \in DOMAIN fs THEN parsePepperFileContentToBytes(fs[path]) ELSE Thrown("ENOENT")

\* a mutant of ResolveFromFile: a pepper is generated and written on every call
ResolveFromFileRewrites(fs, path, createIfMissing, fresh, read) ==
    IF read.status # "ok" /\ ~createIfMissing
    THEN [files |-> fs, calls |-> <<FsCall("readFile", path)>>, result |-> read]
    ELSE [files |-> MapSet(fs, path, base64Encode(fresh)),
          calls |-> <<FsCall("readFile", path), FsCall("mkdir", path),
                      FsCall("writeFile", path), FsCall("chmod", path)>>,
          result |-> PepperResult(fresh, "file", <<path>>)]

\* resolvePepper once the environment gave no pepper and the try block has run;
\* fresh is what randomBytes returns when it is called
ResolveFromFile(fs, path, createIfMissing, fresh, read) ==
    IF read.status = "ok"
    THEN [files |-> fs, calls |-> <<FsCall("readFile", path)>>,
          result |-> PepperResult(read.pepperBytes, "file", <<path>>)]
    ELSE IF ~createIfMissing
    THEN [files |-> fs, calls |-> <<FsCall("readFile", path)>>, result |-> read]
    ELSE [files |-> MapSet(fs, path, base64Encode(fresh)),
          calls |-> <<FsCall("readFile", path), FsCall("mkdir", path),
                      FsCall("writeFile", path), FsCall("chmod", path)>>,
          result |-> PepperResult(fresh, "file", <<path>>)]

\* resolvePepper once the environment is looked up
ResolveFromEnv(fs, opts, fresh, pepperFromEnv) ==
    IF pepperFromEnv # <<>>
    THEN [files |-> fs, calls |-> <<>>,
          result |-> PepperResult(utf8Encode(pepperFromEnv[1]), "env", <<>>)]
    ELSE ResolveFromFile(fs,
             IF opts.pepperFilePath = <<>> THEN defaultPepperFilePath
             ELSE opts.pepperFilePath[1],
             IF opts.createIfMissing = <<>> THEN TRUE ELSE opts.createIfMissing[1],
             fresh,
             ReadPepper(fs, IF opts.pepperFilePath = <<>> THEN defaultPepperFilePath
                            ELSE opts.pepperFilePath[1]))

\* [files, calls, result]: the file system after the call, the file-system calls made,
\* and what the call returned or threw
ResolvePepper(e, fs, opts, fresh) ==
    ResolveFromEnv(fs, opts, fresh,
                   getPepperFromEnv(e, IF opts.envVarNames = <<>> THEN DefaultEnvVarNames
                                       ELSE opts.envVarNames[1]))

----------------------------------------------------------------------------
(* dotenv/parse.ts: the parser that builds the key -> value snapshot.  Its  *)
(* stripInlineComment, unescapeDoubleQuoted and parseValue repeat the text  *)
(* of the document parser's, with errors that carry no column.              *)

\* <<the key>>, or <<>> when the text is no key
parseKey(raw) ==
    LET trimmed == Trim(raw)
    IN  IF Len(trimmed) = 0 \/ \E i \in 1..Len(trimmed) : ~isValidKeyChar(trimmed[i])
        THEN <<>> ELSE <<trimmed>>

ParseError(line, message) == [line |-> line, message |-> message]

\* [value, errors]: the value returned and the errors pushed
parseValue(raw, line) ==
    LET pv == parseValueDetailed(raw, line)
    IN  [value |-> pv.value,
         errors |-> [i \in 1..Len(pv.issues) |-> ParseError(line, pv.issues[i].message)]]

\* the loop body of parseDotenv once the key is parsed
ParseDotenvValue(acc, key, pv) ==
    [values |-> MapSet(acc.values, key, pv.value), errors |-> acc.errors \o pv.errors]

\* the loop body of parseDotenv once the line is trimmed and 'export ' is stripped
ParseDotenvAssignment(acc, withoutExport, eq, lineNumber) ==
    IF eq = -1
    THEN [acc EXCEPT !.errors = Append(@, ParseError(lineNumber, "Missing = in assignment"))]
    ELSE IF parseKey(Slice(withoutExport, 0, eq)) = <<>>
    THEN [acc EXCEPT !.errors = Append(@, ParseError(lineNumber, "Invalid key name"))]
    ELSE ParseDotenvValue(acc, parseKey(Slice(withoutExport, 0, eq))[1],
                          parseValue(SliceFrom(withoutExport, eq + 1), lineNumber))

\* trimmed.startsWith('export ') ? trimmed.slice('export '.length).trimStart() : trimmed
WithoutExport(trimmed) ==
    IF StartsWith(trimmed, ExportPrefix) THEN TrimStart(SliceFrom(trimmed, Len(ExportPrefix)))
    ELSE trimmed

\* the loop body of parseDotenv once the line is trimmed
ParseDotenvTrimmed(acc, trimmed, lineNumber) ==
    IF Len(trimmed) = 0 \/ StartsWith(trimmed, <<"#">>) THEN acc
    ELSE ParseDotenvAssignment(acc, WithoutExport(trimmed),
                               IndexOf(WithoutExport(trimmed), "=", 0), lineNumber)

RECURSIVE ParseDotenvFrom(_, _, _)
ParseDotenvFrom(lines, i, acc) ==
    IF i > Len(lines) THEN acc
    ELSE ParseDotenvFrom(lines, i + 1, ParseDotenvTrimmed(acc, Trim(lines[i]), i))

parseDotenv(cont) ==
    ParseDotenvFrom(SplitLines(cont), 1, [values |-> EmptyMap, errors |-> <<>>])

----------------------------------------------------------------------------
(* sources/dotenvFile.ts and sources/externalCommand.ts: the value sources. *)

\* load() once the text is parsed: throw on errors unless options.allowErrors is truthy
Load(parsed, allowErrors, message) ==
    IF Len(parsed.errors) > 0 /\ allowErrors # <<TRUE>>
    THEN Thrown(message)
    ELSE [status |-> "ok", values |-> parsed.values]

----------------------------------------------------------------------------
(* The inputs explored.                                                    *)

\* all sequences over S of length at most n
RECURSIVE SeqsUpTo(_, _)
SeqsUpTo(S, n) ==
    IF n = 0 THEN {<<>>}
    ELSE LET shorter == SeqsUpTo(S, n - 1)
         IN  shorter \cup {Append(s, x) : s \in {t \in shorter : Len(t) = n - 1}, x \in S}

\* raw lines fed to the parser: assignments, export, comments, blanks, quoting, malformed
\* lines, an unterminated quote
DocLineSamples ==
    { <<"A", "=", "1">>,
      <<"B", "=", "\"", "x", " ", "y", "\"">>,
      <<"e", "x", "p", "o", "r", "t", " ", "C", "=", "'", "v", "'">>,
      <<" ", "A", " ", "=", " ", "2", " ", "#", "c">>,
      <<"#", " ", "n", "o", "t", "e">>,
      <<>>,
      <<" ">>,
      <<"N", "O", "E", "Q">>,
      <<"B", "-", "K", "=", "1">>,
      <<"Q", "=", "'", "u">> }

LineTerminators == { <<"\n">>, <<"\r", "\n">> }

\* the lines joined by one terminator, with or without a final one
TextOf(ls, nl, final) == Join(ls, nl) \o (IF final /\ Len(ls) > 0 THEN nl ELSE <<>>)

DocTexts ==
    {TextOf(ls, nl, final) : ls \in SeqsUpTo(DocLineSamples, MaxLines),
                             nl \in LineTerminators, final \in BOOLEAN}

\* the characters of the values handed to quoteValue
ValueChars == {"a", "\\", "\"", "'", "#", " ", "\n", "\t", "$"}

QuoteValues == SeqsUpTo(ValueChars, MaxValueLen)

\* keys of the snapshot and of the calls; their localeCompare order (a, A_, B) is not
\* their code-unit order (A_, B, a)
MatchKeys == { <<"a">>, <<"B">>, <<"A", "_">> }

MatchValues == { <<>>, <<"1">>, <<"s", "k">> }

Snapshots == UNION {[ks -> MatchValues] : ks \in SUBSET MatchKeys}

\* resolvePepper returns pepper bytes, or throws (a corrupt or unreadable pepper file)
PepperOutcomes ==
    { [ok |-> TRUE, pepperBytes |-> "pepper-1"],
      [ok |-> TRUE, pepperBytes |-> "pepper-2"],
      [ok |-> FALSE, pepperBytes |-> ""] }

RegExps == {[source |-> <<"s">>, flags |-> f] : f \in {"", "g", "y"}}

Matchers ==
    {[op |-> o] : o \in {"exists", "is_empty", "is_number", "is_string", "is_boolean"}}
    \cup {[op |-> "is_equal", candidate |-> c] : c \in MatchValues}
    \cup {[op |-> "partial_match_regex", regex |-> r] : r \in RegExps}
    \cup {[op |-> "partial_match_prefix", prefix |-> <<"s">>],
          [op |-> "partial_match_suffix", suffix |-> <<"k">>]}

KeyLists == SeqsUpTo(MatchKeys, MaxKeys)

\* Object.entries(candidatesByKey): pairs <<key, candidate>> with distinct keys
CandidateEntries ==
    {e \in SeqsUpTo(MatchKeys \X MatchValues, MaxKeys) :
        \A i, j \in 1..Len(e) : i # j => e[i][1] # e[j][1]}

\* lines of the texts handed to formatDotenv: keys out of order (localeCompare puts a
\* before B), one key assigned twice, a comment, a blank line, a line that is no assignment
FormatLineSamples ==
    { <<"B", "=", "2">>, <<"a", "=", "1">>, <<"a", "=", "0">>, <<"#", "c">>, <<>>, <<"x">> }

\* lines of annotated texts: two keys out of order, an annotation as annotateDotenvKey
\* writes it, a blank line
AnnotatedLineSamples ==
    { <<"B", "=", "2">>, <<"a", "=", "1">>, <<>>,
      <<"#", " ", "e", "n", "v", "s", "i", "t", "t", "e", "r", ":", " ", "n">> }

FormatTexts ==
    {TextOf(ls, <<"\n">>, final) : ls \in SeqsUpTo(FormatLineSamples, MaxLines),
                                   final \in BOOLEAN}
    \cup {TextOf(ls, <<"\r", "\n">>, final) : ls \in SeqsUpTo(FormatLineSamples, MaxLines - 1),
                                              final \in BOOLEAN}
    \cup {TextOf(ls, <<"\n">>, TRUE) : ls \in SeqsUpTo(AnnotatedLineSamples, MaxLines)}

FormatOptions ==
    {[op |-> "format", mode |-> m, sort |-> s] : m \in {"sections", "global"},
                                                  s \in {"alpha", "none"}}

\* lines of the texts handed to annotateDotenvKey: the key assigned once or twice (the
\* second time indented), an annotation already there, another comment
AnnotateLineSamples ==
    { <<"A", "=", "1">>,
      <<" ", "A", "=", "2">>,
      <<"#", " ", "e", "n", "v", "s", "i", "t", "t", "e", "r", ":", " ", "o">>,
      <<"#", "c">> }

AnnotateTexts ==
    {TextOf(ls, <<"\n">>, final) : ls \in SeqsUpTo(AnnotateLineSamples, MaxLines),
                                   final \in BOOLEAN}

AnnotateKey == <<"A">>

\* options.comment: one line of text, and a text holding a line feed
AnnotateComments == { <<"x">>, <<"a", "\n", "b">> }

\* options.line: undefined, or a line number
AnnotateLineArgs == { <<>>, <<1>>, <<2>> }

\* lines of the source text: a key assigned twice, an exported and quoted assignment
CopySourceLineSamples ==
    { <<"a", "=", "1">>,
      <<"a", "=", "2">>,
      <<"e", "x", "p", "o", "r", "t", " ", "B", " ", "=", " ", "'", "x", "'">> }

\* lines of the target text: a key the source assigns too, and a key renames map to
CopyTargetLineSamples ==
    { <<"B", "=", "o">>, <<"C", "=", "k">> }

CopySources ==
    {TextOf(ls, <<"\n">>, TRUE) : ls \in SeqsUpTo(CopySourceLineSamples, MaxCopyLines)}

CopyTargets ==
    {TextOf(ls, <<"\n">>, TRUE) : ls \in SeqsUpTo(CopyTargetLineSamples, MaxCopyLines)}

\* options.keys: undefined, or a list (out of order, untrimmed, repeated, empty entries,
\* keys the source lacks)
CopyKeyArgs ==
    { <<>>,
      << << <<"B">>, <<" ", "a", " ">> >> >>,
      << << <<"a", "b">>, <<"Z">>, <<"a">> >> >>,
      << << <<>>, <<"B">>, <<"B">> >> >> }

\* options.include and options.exclude
CopyFilters ==
    { [include |-> <<>>, exclude |-> <<>>],
      [include |-> <<[source |-> <<"a">>, flags |-> ""]>>, exclude |-> <<>>],
      [include |-> <<>>, exclude |-> <<[source |-> <<"B">>, flags |-> ""]>>],
      [include |-> <<[source |-> <<"a">>, flags |-> "g"]>>,
       exclude |-> <<[source |-> <<"Z">>, flags |-> ""]>>] }

\* options.rename: none, one key, two keys onto one target with a malformed entry, and
\* a target that is no key name
CopyRenames ==
    { <<>>,
      <<"a", "=", "C">>,
      <<" ", "a", " ", "=", " ", "C", " ", ",", "B", "=", "C", ",", "x">>,
      <<"a", "=", "C", " ", "D">> }

CopyOptions ==
    {[op |-> "copy", keys |-> k, include |-> f.include, exclude |-> f.exclude,
      rename |-> r, onConflict |-> c] :
        k \in CopyKeyArgs, f \in CopyFilters, r \in CopyRenames,
        c \in {"error", "skip", "overwrite"}}

\* paths of the file scenarios
FromPath == "from"

FilePath == "file"

\* the file the operations work on: absent, or one of these texts
FileTexts ==
    { <<>>,
      <<"A", "=", "1", "\n">>,
      <<"B", "=", "2", "\n", "A", "=", "1", "\n">>,
      <<"A", "=", "1", "\n", "A", "=">> }

\* the file keys are copied from: absent, or one of these texts
FromTexts ==
    { <<"A", "=", "2", "\n">>, <<"N", "=", "3", "\n">>,
      <<"A", "=", "2", "\n", "N", "=", "3", "\n">> }

FileSystems ==
    {[p \in ps |-> IF p = FromPath THEN from ELSE file] :
        ps \in SUBSET {FromPath, FilePath}, from \in FromTexts, file \in FileTexts}

\* options.write: omitted, true, false
WriteFlags == {<<>>, <<TRUE>>, <<FALSE>>}

\* values to add or set: plain, with a space, empty, with a quote and a hash, ending in
\* a backslash
FileValues == {<<"1">>, <<"x", " ", "y">>, <<>>, <<"a", "\"", "#">>, <<"\\">>}

FileOp(op, write, onConflict, key, v, keys) ==
    [op |-> op, from |-> FromPath, file |-> FilePath, write |-> write,
     onConflict |-> onConflict, key |-> key, value |-> v, comment |-> <<"x">>, keys |-> keys]

FileOptions ==
    {FileOp("copy", w, c, <<>>, <<>>, <<>>) : w \in WriteFlags, c \in {<<>>, <<"overwrite">>}}
    \cup {FileOp(op, w, <<>>, <<>>, <<>>, <<>>) : op \in {"format"}, w \in WriteFlags}
    \cup {FileOp(op, w, <<>>, k, <<>>, <<>>) :
             op \in {"annotate", "unset"}, w \in WriteFlags, k \in {<<"A">>, <<"N">>}}
    \cup {FileOp(op, w, <<>>, k, v, <<>>) :
             op \in {"add", "set"}, w \in WriteFlags, k \in {<<"A">>, <<"N">>}, v \in FileValues}
    \cup {FileOp("delete", w, <<>>, <<>>, <<>>, ks) :
             w \in WriteFlags, ks \in {<< <<"A">> >>, << <<"N">>, <<"A">> >>}}

\* process.env: each name unset or set (the first two also to the empty string)
PepperEnvs ==
    {[n \in ns |-> IF n = "MY_PEPPER" THEN <<"q", EAcute>> ELSE v[n]] :
        ns \in SUBSET {"ENVSITTER_PEPPER", "ENV_SITTER_PEPPER", "MY_PEPPER"},
        v \in [{"ENVSITTER_PEPPER", "ENV_SITTER_PEPPER"} -> {<<>>, <<"p">>, <<"p", " ", "q">>}]}

\* what randomBytes(32) may return
RandomBytes ==
    {[i \in 1..PepperLength |-> 0], [i \in 1..PepperLength |-> 255],
     [i \in 1..PepperLength |-> (i * 37) % 256]}

\* texts of a pepper file: empty, blank, 3 bytes, 15 bytes, 16 bytes with a line
\* feed, 32 bytes
PepperFileTexts ==
    { <<>>, <<" ", "\n">>, <<"A", "A", "A", "A">>,
      base64Encode([i \in 1..(MinPepperBytes - 1) |-> i]),
      base64Encode([i \in 1..MinPepperBytes |-> 250 + (i % 6)]) \o <<"\n">>,
      base64Encode([i \in 1..PepperLength |-> 7 * i]) }

PepperPaths == {defaultPepperFilePath, "custom/pepper"}

PepperFileSystems ==
    {EmptyMap} \cup {[p \in {path} |-> t] : path \in PepperPaths, t \in PepperFileTexts}

PepperOptions ==
    {[op |-> "resolvePepper", envVarNames |-> n, pepperFilePath |-> p, createIfMissing |-> c] :
        n \in {<<>>, << <<"MY_PEPPER", "ENVSITTER_PEPPER">> >>, << <<>> >>},
        p \in {<<>>, <<"custom/pepper">>},
        c \in {<<>>, <<TRUE>>, <<FALSE>>}}

\* lines of the texts a value source reads: assignments (one key twice), an unterminated
\* quote, a line without '='
SourceLineSamples ==
    { <<"A", "=", "1">>, <<"A", "=", "2">>, <<"Q", "=", "'", "u">>, <<"N", "O", "E", "Q">> }

SourceTexts == {TextOf(ls, <<"\n">>, TRUE) : ls \in SeqsUpTo(SourceLineSamples, MaxLines)}

\* options.allowErrors: omitted, true, false
SourceOptions ==
    {[op |-> op, allowErrors |-> a] :
        op \in {"DotenvFileSource", "ExternalCommandSource"}, a \in {<<>>, <<TRUE>>, <<FALSE>>}}

EmptyDoc == [lines |-> <<>>, issues |-> <<>>, endsWithNewline |-> FALSE]

EmptyParsedValue == [value |-> <<>>, quote |-> "none", issues |-> <<>>]

----------------------------------------------------------------------------
(* Document scenario: parse a text, then stringify the document.           *)

DocIdle == /\ contents = <<>> /\ doc = EmptyDoc /\ output = <<>>

QuoteIdle == /\ value = <<>> /\ quoted = <<>> /\ reparsed = EmptyParsedValue

NoCall == [method |-> "none", key |-> <<>>, keys |-> <<>>, matcher |-> [op |-> "exists"],
           candidate |-> <<>>, entries |-> <<>>]

NoResult == [status |-> "none", match |-> FALSE, matches |-> <<>>, lastIndex |-> 0]

MatchIdle ==
    /\ snapshot = <<>>
    /\ pepper = [ok |-> FALSE, pepperBytes |-> ""]
    /\ lastIndex = 0
    /\ call = NoCall
    /\ result = NoResult

docVars == <<contents, doc, output>>

quoteVars == <<value, quoted, reparsed>>

matchVars == <<snapshot, pepper, lastIndex, call, result>>

NoOptions == [op |-> "none"]

EditIdle ==
    /\ sourceContents = <<>>
    /\ original = <<>>
    /\ edited = <<>>
    /\ options = NoOptions
    /\ outcomes = <<>>

editVars == <<sourceContents, original, edited, options, outcomes>>

FsIdle == /\ files = EmptyMap /\ env = EmptyMap /\ fsLog = <<>> /\ tasks = <<>>

fsVars == <<files, env, fsLog, tasks>>

InitDoc ==
    /\ pc = "start"
    /\ contents \in DocTexts
    /\ doc = EmptyDoc
    /\ output = <<>>
    /\ QuoteIdle
    /\ MatchIdle
    /\ EditIdle
    /\ FsIdle

Parse ==
    /\ pc = "start"
    /\ doc' = parseDotenvDocument(contents)
    /\ pc' = "parsed"
    /\ UNCHANGED <<contents, output, quoteVars, matchVars, editVars, fsVars>>

Stringify ==
    /\ pc = "parsed"
    /\ output' = stringifyDotenvDocument(doc)
    /\ pc' = "stringified"
    /\ UNCHANGED <<contents, doc, quoteVars, matchVars, editVars, fsVars>>

NextDoc == Parse \/ Stringify

SpecDoc == InitDoc /\ [][NextDoc]_vars

\* C1: stringifying the parse of any text (LF or CRLF terminated, with or without a
\* final newline, the empty text included) gives back that text byte for byte.
RoundTrip == pc = "stringified" => output = contents

----------------------------------------------------------------------------
(* Quoting scenario: quote a value, then parse the quoted text as the part *)
(* of an assignment line after '='.                                        *)

InitQuote ==
    /\ pc = "start"
    /\ value \in QuoteValues
    /\ quoted = <<>>
    /\ reparsed = EmptyParsedValue
    /\ DocIdle
    /\ MatchIdle
    /\ EditIdle
    /\ FsIdle

Quote ==
    /\ pc = "start"
    /\ quoted' = quoteValue(value)
    /\ pc' = "quoted"
    /\ UNCHANGED <<value, reparsed, docVars, matchVars, editVars, fsVars>>

ParseQuoted ==
    /\ pc = "quoted"
    /\ reparsed' = parseValueDetailed(quoted, 1)
    /\ pc' = "reparsed"
    /\ UNCHANGED <<value, quoted, docVars, matchVars, editVars, fsVars>>

NextQuote == Quote \/ ParseQuoted

SpecQuote == InitQuote /\ [][NextQuote]_vars

\* C2: parsing the text quoteValue(v) produced yields v again and records no issue,
\* for every v (backslashes, quotes, '#', spaces, control characters included).
QuotingRoundTrip == pc = "reparsed" => reparsed.value = value /\ reparsed.issues = <<>>

----------------------------------------------------------------------------
(* Matching scenario: an EnvSitter over a loaded snapshot answers calls.   *)
(* The caller keeps its matcher objects, so the lastIndex of a RegExp      *)
(* carries over from one call to the next.                                 *)

InitMatch ==
    /\ pc = "start"
    /\ snapshot \in Snapshots
    /\ pepper \in PepperOutcomes
    /\ lastIndex = 0
    /\ call = NoCall
    /\ result = NoResult
    /\ DocIdle
    /\ QuoteIdle
    /\ EditIdle
    /\ FsIdle

Finish(c, r) ==
    /\ pc = "start"
    /\ pc' = "called"
    /\ call' = c
    /\ result' = r
    /\ lastIndex' = r.lastIndex
    /\ UNCHANGED <<snapshot, pepper, docVars, quoteVars, editVars, fsVars>>

MatchKey ==
    \E key \in MatchKeys, matcher \in Matchers :
        Finish([NoCall EXCEPT !.method = "matchKey", !.key = key, !.matcher = matcher],
               matchKey(snapshot, pepper, key, matcher, lastIndex))

MatchKeyBulk ==
    \E keys \in KeyLists, matcher \in Matchers :
        Finish([NoCall EXCEPT !.method = "matchKeyBulk", !.keys = keys, !.matcher = matcher],
               matchKeyBulk(snapshot, pepper, keys, matcher, lastIndex))

MatchKeyAll ==
    \E matcher \in Matchers :
        Finish([NoCall EXCEPT !.method = "matchKeyAll", !.matcher = matcher],
               matchKeyAll(snapshot, pepper, matcher, lastIndex))

MatchCandidate ==
    \E key \in MatchKeys, candidate \in MatchValues :
        Finish([NoCall EXCEPT !.method = "matchCandidate", !.key = key, !.candidate = candidate],
               matchCandidate(snapshot, pepper, key, candidate, lastIndex))

MatchCandidatesByKey ==
    \E entries \in CandidateEntries :
        Finish([NoCall EXCEPT !.method = "matchCandidatesByKey", !.entries = entries],
               matchCandidatesByKey(snapshot, pepper, entries, lastIndex))

\* the caller takes the answer and goes on to its next call
NextCall ==
    /\ pc = "called"
    /\ pc' = "start"
    /\ call' = NoCall
    /\ result' = NoResult
    /\ UNCHANGED <<snapshot, pepper, lastIndex, docVars, quoteVars, editVars, fsVars>>

NextMatch ==
    \/ MatchKey
    \/ MatchKeyBulk
    \/ MatchKeyAll
    \/ MatchCandidate
    \/ MatchCandidatesByKey
    \/ NextCall

SpecMatch == InitMatch /\ [][NextMatch]_vars

OkPeppers == {p \in PepperOutcomes : p.ok}

\* C3: for a key present in the snapshot with value v, matchCandidate(key, c) returns
\* true exactly when c = v, and every pepper the call may resolve gives that answer.
EqualValueMatch ==
    (call.method = "matchCandidate" /\ call.key \in DOMAIN snapshot /\ pepper.ok) =>
        /\ result.status = "returned"
        /\ result.match = (call.candidate = snapshot[call.key])
        /\ \A p \in OkPeppers :
              matchCandidate(snapshot, p, call.key, call.candidate, 0).match = result.match

\* a present key was matched against its own value, and against another one
EqualValueMatchWitness ==
    /\ call.method = "matchCandidate"
    /\ call.key \in DOMAIN snapshot
    /\ pepper.ok
    /\ result.status = "returned"
    /\ result.match
    /\ \E c \in MatchValues : ~matchCandidate(snapshot, pepper, call.key, c, 0).match

Absent(key) == key \notin DOMAIN snapshot

\* C4: for a key absent from the snapshot matchKey, matchKeyBulk and
\* matchCandidatesByKey answer match = false under every matcher (exists included,
\* which answers true exactly for the present keys); the missing key never makes a
\* call throw: a call throws only when the pepper cannot be resolved.
MatchingTotality ==
    /\ call.method = "matchKey" =>
          /\ Absent(call.key) => result.status = "returned" /\ ~result.match
          /\ call.matcher.op = "exists" =>
                result.status = "returned" /\ result.match = ~Absent(call.key)
          /\ result.status = "threw" => ~pepper.ok
    /\ call.method \in {"matchKeyBulk", "matchCandidatesByKey"} =>
          /\ result.status = "threw" => ~pepper.ok
          /\ result.status = "returned" =>
                \A i \in 1..Len(result.matches) :
                    /\ Absent(result.matches[i].key) => ~result.matches[i].match
                    /\ (call.method = "matchKeyBulk" /\ call.matcher.op = "exists") =>
                          result.matches[i].match = ~Absent(result.matches[i].key)
    /\ call.method = "matchKeyBulk" =>
          (result.status = "threw" => call.matcher.op = "is_equal")

\* a bulk call over an absent and a present key returned, the absent one not matching
MatchingTotalityWitness ==
    /\ call.method = "matchKeyBulk"
    /\ call.matcher.op = "is_empty"
    /\ result.status = "returned"
    /\ \E i, j \in 1..Len(result.matches) :
          /\ Absent(result.matches[i].key) /\ ~result.matches[i].match
          /\ ~Absent(result.matches[j].key) /\ result.matches[j].match

\* C5: matchKeyBulk returns one entry per given key, in the order given, duplicates
\* kept; matchKeyAll returns one entry per snapshot key, in localeCompare order.
BulkResultShape ==
    /\ (call.method = "matchKeyBulk" /\ result.status = "returned") =>
          /\ Len(result.matches) = Len(call.keys)
          /\ \A i \in 1..Len(call.keys) : result.matches[i].key = call.keys[i]
    /\ (call.method = "matchKeyAll" /\ result.status = "returned") =>
          /\ Len(result.matches) = Cardinality(DOMAIN snapshot)
          /\ {result.matches[i].key : i \in 1..Len(result.matches)} = DOMAIN snapshot
          /\ \A i, j \in 1..Len(result.matches) :
                i < j => localeCompare(result.matches[i].key, result.matches[j].key) < 0

\* a bulk call returned for a list that repeats a key, and for one with an absent key
BulkResultShapeWitness ==
    /\ call.method = "matchKeyBulk"
    /\ result.status = "returned"
    /\ Len(call.keys) = 2
    /\ call.keys[1] = call.keys[2]
    /\ Absent(call.keys[1])

----------------------------------------------------------------------------
(* Format scenario: a text is formatted, and the output formatted again,   *)
(* with the same mode and sort.                                            *)

InitFormat ==
    /\ pc = "start"
    /\ sourceContents = <<>>
    /\ original \in FormatTexts
    /\ edited = original
    /\ options \in FormatOptions
    /\ outcomes = <<>>
    /\ DocIdle
    /\ QuoteIdle
    /\ MatchIdle
    /\ FsIdle

Format ==
    /\ Len(outcomes) < MaxCalls
    /\ \E r \in {formatDotenv(edited, options.mode, options.sort)} :
          /\ outcomes' = Append(outcomes, r)
          /\ edited' = r.output
    /\ pc' = "done"
    /\ UNCHANGED <<sourceContents, original, options, docVars, quoteVars, matchVars, fsVars>>

NextFormat == Format

SpecFormat == InitFormat /\ [][NextFormat]_vars

----------------------------------------------------------------------------
(* Annotate scenario: a key is annotated again and again, each call on the  *)
(* output of the one before.                                                *)

InitAnnotate ==
    /\ pc = "start"
    /\ sourceContents = <<>>
    /\ original \in AnnotateTexts
    /\ edited = original
    /\ options = [op |-> "annotate", key |-> AnnotateKey]
    /\ outcomes = <<>>
    /\ DocIdle
    /\ QuoteIdle
    /\ MatchIdle
    /\ FsIdle

Annotate ==
    /\ Len(outcomes) < MaxCalls
    /\ \E comment \in AnnotateComments, line \in AnnotateLineArgs :
          \E r \in {annotateDotenvKey(edited, options.key, comment, line)} :
              /\ outcomes' = Append(outcomes, [comment |-> comment, line |-> line,
                                              contents |-> edited, plan |-> r.plan,
                                              hasChanges |-> r.hasChanges])
              /\ edited' = r.output
    /\ pc' = "done"
    /\ UNCHANGED <<sourceContents, original, options, docVars, quoteVars, matchVars, fsVars>>

NextAnnotate == Annotate

SpecAnnotate == InitAnnotate /\ [][NextAnnotate]_vars

\* the assignments of the key in a text
AssignmentsOf(cont, key) ==
    SelectSeq(listAssignments(parseDotenvDocument(cont).lines), LAMBDA a : a.key = key)

IsAnnotation(l) == l.kind = "comment" /\ StartsWith(TrimStart(l.raw), EnvsitterMark)

\* the line above the assignment of the key is a '# envsitter:' comment
AnnotatedAbove(cont, key) ==
    LET ls == parseDotenvDocument(cont).lines
    IN  \E i \in 2..Len(ls) :
            /\ ls[i].kind = "assignment" /\ ls[i].key = key
            /\ IsAnnotation(ls[i - 1])

\* C7: for a key with a unique assignment (not annotated yet) and any comment text,
\* after any number of successive calls without a line parameter the document holds
\* exactly one line more than the original, a '# envsitter:' comment directly above the
\* assignment; the first call reports inserted, every later call updated.
AnnotateNoDuplicate ==
    ( /\ Len(outcomes) >= 1
      /\ Len(AssignmentsOf(original, options.key)) = 1
      /\ ~AnnotatedAbove(original, options.key)
      /\ \A i \in 1..Len(outcomes) : outcomes[i].line = <<>> ) =>
        /\ Len(parseDotenvDocument(edited).lines) = Len(parseDotenvDocument(original).lines) + 1
        /\ Len(AssignmentsOf(edited, options.key)) = 1
        /\ AnnotatedAbove(edited, options.key)
        /\ outcomes[1].plan.action = "inserted"
        /\ \A i \in 2..Len(outcomes) : outcomes[i].plan.action = "updated"

\* C8: with no assignment of the key the action is not_found; with exactly one that
\* assignment is the target (inserted or updated) whatever the line parameter is;
\* ambiguous is returned only when several assignments exist and the line parameter
\* selects none of them, and then keyLines lists every candidate line.
AnnotateTargetSelection ==
    \A i \in 1..Len(outcomes) :
        LET r == outcomes[i]
            own == AssignmentsOf(r.contents, options.key)
            ownLines == [j \in 1..Len(own) |-> own[j].line]
        IN  /\ Len(own) = 0 => r.plan.action = "not_found"
            /\ Len(own) = 1 =>
                  /\ r.plan.action \in {"inserted", "updated"}
                  /\ r.plan.line = <<own[1].line>>
            /\ r.plan.action = "ambiguous" =>
                  /\ Len(own) > 1
                  /\ r.line = <<>> \/ \A j \in 1..Len(own) : own[j].line # r.line[1]
                  /\ r.plan.keyLines = ownLines

----------------------------------------------------------------------------
(* Copy scenario: keys are copied from a source text into a target text.   *)

InitCopy ==
    /\ pc = "start"
    /\ sourceContents \in CopySources
    /\ original \in CopyTargets
    /\ edited = original
    /\ options \in CopyOptions
    /\ outcomes = <<>>
    /\ DocIdle
    /\ QuoteIdle
    /\ MatchIdle
    /\ FsIdle

Copy ==
    /\ pc = "start"
    /\ \E r \in {copyDotenvKeys(sourceContents, edited, options)} :
          /\ outcomes' = <<r>>
          /\ edited' = r.output
    /\ pc' = "done"
    /\ UNCHANGED <<sourceContents, original, options, docVars, quoteVars, matchVars, fsVars>>

NextCopy == Copy

SpecCopy == InitCopy /\ [][NextCopy]_vars

Range(s) == {s[i] : i \in 1..Len(s)}

\* the keys the source text assigns
KeysOf(cont) ==
    LET a == listAssignments(parseDotenvDocument(cont).lines)
    IN  {a[i].key : i \in 1..Len(a)}

\* the distinct requested keys: the trimmed explicit keys, or all source keys
Requested ==
    IF options.keys = <<>> THEN KeysOf(sourceContents)
    ELSE {Trim(k) : k \in Range(options.keys[1])} \ {<<>>}

PlanKeys == {outcomes[1].plan[i].fromKey : i \in 1..Len(outcomes[1].plan)}

PlanAscending ==
    \A i, j \in 1..Len(outcomes[1].plan) :
        i < j => localeCompare(outcomes[1].plan[i].fromKey, outcomes[1].plan[j].fromKey) < 0

Stateless(f) == f = <<>> \/ f[1].flags = ""

Matches(f, key) == Occurrences(key, f[1].source, 0) # {}

ToKey(fromKey) ==
    LET renameMap == parseRenameMap(options.rename)
    IN  IF fromKey \in DOMAIN renameMap THEN renameMap[fromKey] ELSE fromKey

\* the raw text the copy of fromKey under the name toKey must have
ExpectedRaw(fromKey, toKey) ==
    LET src == lastAssignmentForKey(
                   listAssignments(parseDotenvDocument(sourceContents).lines), fromKey)[1]
    IN  IF toKey = fromKey THEN src.raw
        ELSE src.leadingWhitespace \o (IF src.exported THEN ExportPrefix ELSE <<>>)
                 \o toKey \o src.beforeEqWhitespace \o <<"=">> \o src.afterEqRaw

CopiedEntries == SelectSeq(outcomes[1].plan, LAMBDA p : p.action = "copy")

\* C10: under onConflict = error a key of the source whose (renamed) target key the
\* target already assigns gets action conflict and no target line is changed, while
\* the keys the target lacks are appended in the same call; hasChanges is true exactly
\* when a plan entry has action copy or overwrite.
CopyErrorGranularity ==
    pc = "done" =>
        LET r == outcomes[1]
            before == parseDotenvDocument(original).lines
            after == parseDotenvDocument(r.output).lines
        IN  /\ r.hasChanges <=>
                  \E i \in 1..Len(r.plan) : r.plan[i].action \in {"copy", "overwrite"}
            /\ options.onConflict = "error" =>
                  /\ \A i \in 1..Len(r.plan) :
                        LET p == r.plan[i]
                        IN  /\ p.toKey = ToKey(p.fromKey)
                            /\ p.fromKey \in KeysOf(sourceContents) =>
                                  p.action = IF p.toKey \in KeysOf(original)
                                             THEN "conflict" ELSE "copy"
                  /\ Len(after) = Len(before) + Len(CopiedEntries)
                  /\ \A i \in 1..Len(before) : after[i].raw = before[i].raw
                  /\ \A i \in 1..Len(CopiedEntries) :
                        after[Len(before) + i].raw =
                            ExpectedRaw(CopiedEntries[i].fromKey, CopiedEntries[i].toKey)

\* one call under the error policy reported a conflict and appended another key
CopyErrorGranularityWitness ==
    /\ pc = "done"
    /\ options.onConflict = "error"
    /\ outcomes[1].hasChanges
    /\ \E i, j \in 1..Len(outcomes[1].plan) :
          /\ outcomes[1].plan[i].action = "conflict"
          /\ outcomes[1].plan[j].action = "copy"
    /\ Len(parseDotenvDocument(edited).lines) > Len(parseDotenvDocument(original).lines)

\* the index of the last assignment of the key in the lines, or 0
LastIndexOfKey(lines, key) ==
    LET hits == {i \in 1..Len(lines) : lines[i].kind = "assignment" /\ lines[i].key = key}
    IN  IF hits = {} THEN 0 ELSE Max(hits)

\* C11: under onConflict = overwrite only the last assignment line of an overwritten key
\* is replaced, at its position; every other line of the target keeps its raw text and
\* its place, overwrites add no line, and the keys new to the target are appended after
\* all the original lines.
CopyOverwriteInPlace ==
    (pc = "done" /\ options.onConflict = "overwrite") =>
        LET plan == outcomes[1].plan
            before == parseDotenvDocument(original).lines
            after == parseDotenvDocument(outcomes[1].output).lines
        IN  /\ Len(after) = Len(before) + Len(CopiedEntries)
            /\ \A j \in 1..Len(plan) :
                  plan[j].fromKey \in KeysOf(sourceContents) =>
                      plan[j].action = IF plan[j].toKey \in KeysOf(original)
                                       THEN "overwrite" ELSE "copy"
            /\ \A i \in 1..Len(before) :
                  LET writers == {j \in 1..Len(plan) :
                                     /\ plan[j].action = "overwrite"
                                     /\ i = LastIndexOfKey(before, plan[j].toKey)}
                  IN  IF writers = {} THEN after[i].raw = before[i].raw
                      ELSE after[i].raw = ExpectedRaw(plan[Max(writers)].fromKey,
                                                      plan[Max(writers)].toKey)
            /\ \A i \in 1..Len(CopiedEntries) :
                  after[Len(before) + i].raw = ExpectedRaw(CopiedEntries[i].fromKey,
                                                           CopiedEntries[i].toKey)

\* a target assigning a key twice had the second assignment overwritten, the first one
\* kept, and another key appended
CopyOverwriteInPlaceWitness ==
    /\ pc = "done"
    /\ options.onConflict = "overwrite"
    /\ \E j, k \in 1..Len(outcomes[1].plan) :
          /\ outcomes[1].plan[j].action = "overwrite"
          /\ outcomes[1].plan[j].toLine = <<2>>
          /\ outcomes[1].plan[k].action = "copy"
    /\ LET before == parseDotenvDocument(original).lines
           after == parseDotenvDocument(edited).lines
       IN  /\ Len(before) = 2
           /\ before[1].raw = before[2].raw
           /\ after[1].raw = before[1].raw
           /\ after[2].raw # before[2].raw

\* the text of an assignment line after its first '='
AfterEquals(raw) == SliceFrom(raw, IndexOf(raw, "=", 0) + 1)

\* the plan entries whose line the copy wrote
WrittenEntries ==
    {j \in 1..Len(outcomes[1].plan) : outcomes[1].plan[j].action \in {"copy", "overwrite"}}

\* distinct requested keys map to distinct target keys
DistinctTargets ==
    \A j, k \in 1..Len(outcomes[1].plan) :
        j # k => outcomes[1].plan[j].toKey # outcomes[1].plan[k].toKey

\* C12: when distinct requested keys map to distinct target keys, every plan entry
\* with action copy or overwrite leaves toKey in the snapshot of the output with the
\* value fromKey has in the snapshot of the source, and the text after '=' of the
\* line of toKey in the output is that of the source line of fromKey, renamed or not.
CopyValueVerbatim ==
    (pc = "done" /\ DistinctTargets) =>
        \A j \in WrittenEntries :
            LET p == outcomes[1].plan[j]
                src == parseDotenv(sourceContents).values
                out == parseDotenv(outcomes[1].output).values
                sourceLine == lastAssignmentForKey(
                    listAssignments(parseDotenvDocument(sourceContents).lines), p.fromKey)
                copiedLine == lastAssignmentForKey(
                    listAssignments(parseDotenvDocument(outcomes[1].output).lines), p.toKey)
            IN  /\ p.fromKey \in DOMAIN src
                /\ p.toKey \in DOMAIN out
                /\ out[p.toKey] = src[p.fromKey]
                /\ sourceLine # <<>>
                /\ copiedLine # <<>>
                /\ AfterEquals(copiedLine[1].raw) = AfterEquals(sourceLine[1].raw)

----------------------------------------------------------------------------
(* File scenario: one file operation called up to MaxCalls times with the   *)
(* same options on a file system.                                           *)

InitFileOps ==
    /\ pc = "start"
    /\ files \in FileSystems
    /\ env = EmptyMap
    /\ fsLog = <<>>
    /\ tasks = <<>>
    /\ options \in FileOptions
    /\ outcomes = <<>>
    /\ sourceContents = <<>>
    /\ original = <<>>
    /\ edited = <<>>
    /\ DocIdle
    /\ QuoteIdle
    /\ MatchIdle

fileOpFrame == <<sourceContents, original, edited, options, env, tasks, docVars, quoteVars, matchVars>>

copyEnvFileKeys ==
    /\ options.op = "copy"
    /\ Len(outcomes) < MaxCalls
    /\ IF readFile(files, options.from) = <<>> THEN ReadThrows(options.from)
       ELSE \E r \in {copyDotenvKeys(files[options.from],
                                     readTextFileOrEmpty(files, options.file),
                                     [keys |-> <<>>, include |-> <<>>, exclude |-> <<>>,
                                      rename |-> <<>>, onConflict |-> CopyPolicy(options)])} :
               \E wrote \in {WillWrite(options) /\ ~HasConflicts(r.plan) /\ r.hasChanges} :
                   /\ files' = IF wrote THEN writeTextFileAtomic(files, options.file, r.output)
                               ELSE files
                   /\ fsLog' = fsLog \o <<FsCall("readFile", options.from),
                                          FsCall("readFile", options.file)>>
                                     \o (IF wrote THEN WriteCalls(options.file) ELSE <<>>)
                   /\ outcomes' = Append(outcomes, FileOpResult(options, r, wrote, r.plan))
    /\ pc' = "done"
    /\ UNCHANGED fileOpFrame

formatEnvFile ==
    /\ options.op = "format"
    /\ Len(outcomes) < MaxCalls
    /\ IF readFile(files, options.file) = <<>> THEN ReadThrows(options.file)
       ELSE \E r \in {formatDotenv(files[options.file], "sections", "alpha")} :
               WriteAndReturn(options, r, <<>>)
    /\ pc' = "done"
    /\ UNCHANGED fileOpFrame

annotateEnvFile ==
    /\ options.op = "annotate"
    /\ Len(outcomes) < MaxCalls
    /\ IF readFile(files, options.file) = <<>> THEN ReadThrows(options.file)
       ELSE \E r \in {annotateDotenvKey(files[options.file], options.key, options.comment,
                                        <<>>)} :
               WriteAndReturn(options, r, r.plan)
    /\ pc' = "done"
    /\ UNCHANGED fileOpFrame

addEnvFileKey ==
    /\ options.op = "add"
    /\ Len(outcomes) < MaxCalls
    /\ \E r \in {addDotenvKey(readTextFileOrEmpty(files, options.file), options.key,
                              options.value)} :
          WriteAndReturn(options, r, r.plan)
    /\ pc' = "done"
    /\ UNCHANGED fileOpFrame

setEnvFileKey ==
    /\ options.op = "set"
    /\ Len(outcomes) < MaxCalls
    /\ \E r \in {setDotenvKey(readTextFileOrEmpty(files, options.file), options.key,
                              options.value)} :
          WriteAndReturn(options, r, r.plan)
    /\ pc' = "done"
    /\ UNCHANGED fileOpFrame

unsetEnvFileKey ==
    /\ options.op = "unset"
    /\ Len(outcomes) < MaxCalls
    /\ IF readFile(files, options.file) = <<>> THEN ReadThrows(options.file)
       ELSE \E r \in {unsetDotenvKey(files[options.file], options.key)} :
               WriteAndReturn(options, r, r.plan)
    /\ pc' = "done"
    /\ UNCHANGED fileOpFrame

deleteEnvFileKeys ==
    /\ options.op = "delete"
    /\ Len(outcomes) < MaxCalls
    /\ IF readFile(files, options.file) = <<>> THEN ReadThrows(options.file)
       ELSE \E r \in {deleteDotenvKeys(files[options.file], options.keys)} :
               WriteAndReturn(options, r, r.plan)
    /\ pc' = "done"
    /\ UNCHANGED fileOpFrame

NextFileOps ==
    \/ copyEnvFileKeys
    \/ formatEnvFile
    \/ annotateEnvFile
    \/ addEnvFileKey
    \/ setEnvFileKey
    \/ unsetEnvFileKey
    \/ deleteEnvFileKeys

SpecFileOps == InitFileOps /\ [][NextFileOps]_vars

\* the calls of the log that change a file
WritingCalls == {"writeFile", "rename", "mkdir", "chmod"}

\* the last call returned and it wrote the file
LastCallWrote ==
    \E i \in (Len(fsLog) + 1)..Len(fsLog') : fsLog'[i].op \in WritingCalls

\* C13: a file operation writes the file only when write is exactly true and it
\* reports hasChanges = true; the wrote flag it returns is true exactly when it wrote,
\* and with write omitted the file system after the call is the one before it.
DryRunByDefault ==
    [][LET r == outcomes'[Len(outcomes')]
       IN  /\ LastCallWrote => (options.write = <<TRUE>> /\ r.status = "ok" /\ r.hasChanges)
           /\ r.status = "ok" => (r.wrote <=> LastCallWrote)
           /\ files' # files => LastCallWrote
           /\ options.write = <<>> => files' = files]_vars

\* a call with write = true that wrote the file, after which the file differs
DryRunByDefaultWitness ==
    /\ pc = "done"
    /\ options.write = <<TRUE>>
    /\ outcomes[1].status = "ok"
    /\ outcomes[1].wrote
    /\ outcomes[1].hasChanges
    /\ \E i \in 1..Len(fsLog) : fsLog[i].op = "rename"

----------------------------------------------------------------------------
(* Pepper scenario: resolvePepper called up to MaxCalls times, one after    *)
(* the other, with the same options.                                        *)

InitPepper ==
    /\ pc = "start"
    /\ files \in PepperFileSystems
    /\ env \in PepperEnvs
    /\ fsLog = <<>>
    /\ tasks = <<>>
    /\ options \in PepperOptions
    /\ outcomes = <<>>
    /\ sourceContents = <<>>
    /\ original = <<>>
    /\ edited = <<>>
    /\ DocIdle
    /\ QuoteIdle
    /\ MatchIdle

resolvePepper ==
    /\ Len(outcomes) < MaxCalls
    /\ \E fresh \in RandomBytes :
          \E r \in {ResolvePepper(env, files, options, fresh)} :
              /\ files' = r.files
              /\ fsLog' = fsLog \o r.calls
              /\ outcomes' = Append(outcomes, r.result)
    /\ pc' = "done"
    /\ UNCHANGED fileOpFrame

NextPepper == resolvePepper

SpecPepper == InitPepper /\ [][NextPepper]_vars

\* the names resolvePepper looks up, in order
ConfiguredNames ==
    IF options.envVarNames = <<>> THEN DefaultEnvVarNames ELSE options.envVarNames[1]

\* the positions of the configured names that have a non-empty value
NonEmptyNames ==
    {i \in 1..Len(ConfiguredNames) :
        ConfiguredNames[i] \in DOMAIN env /\ env[ConfiguredNames[i]] # <<>>}

\* the path of the pepper file of this scenario
ConfiguredPath ==
    IF options.pepperFilePath = <<>> THEN defaultPepperFilePath ELSE options.pepperFilePath[1]

\* C14: when a configured environment variable has a non-empty value, resolvePepper
\* returns the UTF-8 bytes of the first such value with source env and no
\* pepperFilePath, and makes no file-system call; in every result pepperFilePath is
\* present exactly when the source is file.
PepperResolutionOrder ==
    [][LET r == outcomes'[Len(outcomes')]
       IN  /\ NonEmptyNames # {} =>
                 /\ r.status = "ok"
                 /\ r.source = "env"
                 /\ r.pepperBytes = utf8Encode(env[ConfiguredNames[Min(NonEmptyNames)]])
                 /\ r.pepperFilePath = <<>>
                 /\ fsLog' = fsLog
                 /\ files' = files
           /\ r.status = "ok" => (r.pepperFilePath # <<>> <=> r.source = "file")]_vars

\* a call that took the pepper of the second configured name, the first being set to
\* the empty string, next to a pepper file it left alone
PepperResolutionOrderWitness ==
    /\ pc = "done"
    /\ Cardinality(NonEmptyNames) > 0
    /\ Min(NonEmptyNames) = 2
    /\ ConfiguredNames[1] \in DOMAIN env
    /\ outcomes[1].source = "env"
    /\ ConfiguredPath \in DOMAIN files
    /\ fsLog = <<>>

\* the text of a pepper file is corrupt: empty once trimmed, or too short once decoded
Corrupt(t) == Len(Trim(t)) = 0 \/ Len(base64Decode(Trim(t))) < MinPepperBytes

\* C15: with no pepper in the environment and a pepper file whose trimmed text is empty
\* or decodes to fewer than 16 bytes, resolvePepper fails and leaves the file as it
\* was, whatever createIfMissing is.
CorruptPepperIsError ==
    [][(/\ NonEmptyNames = {}
        /\ ConfiguredPath \in DOMAIN files
        /\ Corrupt(files[ConfiguredPath]))
       => (/\ outcomes'[Len(outcomes')].status = "error"
           /\ files' = files)]_vars

\* the calls of the log that write
PepperWrites == {i \in 1..Len(fsLog) : fsLog[i].op \in {"mkdir", "writeFile", "chmod"}}

\* C16: with no pepper in the environment, an absent file and creation permitted,
\* resolvePepper writes the base64 text of 32 bytes to the file and returns those bytes
\* with source file; a call that follows a call that returned a pepper from the file
\* returns the same bytes and writes nothing; with creation not permitted and the file
\* absent the call fails and creates no file.
PepperCreationAndStability ==
    [][NonEmptyNames = {} =>
        LET n == Len(outcomes')
            r == outcomes'[n]
        IN  /\ (ConfiguredPath \notin DOMAIN files /\ options.createIfMissing # <<FALSE>>) =>
                  /\ r.status = "ok"
                  /\ r.source = "file"
                  /\ Len(r.pepperBytes) = PepperLength
                  /\ files' = [p \in DOMAIN files \cup {ConfiguredPath} |->
                                   IF p = ConfiguredPath THEN base64Encode(r.pepperBytes)
                                   ELSE files[p]]
                  /\ base64Decode(files'[ConfiguredPath]) = r.pepperBytes
            /\ (n > 1 /\ outcomes[n - 1].status = "ok") =>
                  /\ r = outcomes[n - 1]
                  /\ files' = files
                  /\ \A i \in (Len(fsLog) + 1)..Len(fsLog') : fsLog'[i].op = "readFile"
            /\ (ConfiguredPath \notin DOMAIN files /\ options.createIfMissing = <<FALSE>>) =>
                  /\ r.status = "error"
                  /\ files' = files
                  /\ \A i \in (Len(fsLog) + 1)..Len(fsLog') : fsLog'[i].op = "readFile"]_vars

\* a pepper created in an empty file system by the first call and returned again by
\* the second, which wrote nothing
PepperCreationAndStabilityWitness ==
    /\ Len(outcomes) = 2
    /\ NonEmptyNames = {}
    /\ outcomes[1].status = "ok"
    /\ outcomes[2] = outcomes[1]
    /\ Cardinality(PepperWrites) = 3
    /\ fsLog[Len(fsLog)].op = "readFile"
    /\ fsLog[1].op = "readFile"
    /\ fsLog[2].op = "mkdir"
    /\ base64Decode(files[ConfiguredPath]) = outcomes[2].pepperBytes

\* the lines of the text given to the first formatting, and of its output
FormatInput == parseDotenvDocument(original).lines

FormatOutput == parseDotenvDocument(outcomes[1].output).lines

\* the blank-line-delimited groups of the input: maximal runs [a, b] without a blank
FormatGroups(inp) ==
    {g \in (1..Len(inp)) \X (1..Len(inp)) :
        /\ g[1] <= g[2]
        /\ \A i \in g[1]..g[2] : inp[i].kind # "blank"
        /\ g[1] = 1 \/ inp[g[1] - 1].kind = "blank"
        /\ g[2] = Len(inp) \/ inp[g[2] + 1].kind = "blank"}

\* the comments of the group that precede its first assignment, in order
GroupHeader(inp, g) ==
    LET firstAssignment ==
            IF \E i \in g[1]..g[2] : inp[i].kind = "assignment"
            THEN Min({i \in g[1]..g[2] : inp[i].kind = "assignment"})
            ELSE g[2] + 1
    IN  SelectSeq(SubSeq(RawLines(inp), g[1], firstAssignment - 1),
                  LAMBDA raw : StartsWith(TrimStart(raw), <<"#">>))

\* blank lines stay, groups keep their lines, headers first, keys in order
SectionsAlpha(inp, out) ==
    /\ Len(out) = Len(inp)
    /\ \A i \in 1..Len(inp) :
          (inp[i].kind = "blank" \/ out[i].kind = "blank") =>
              out[i].raw = inp[i].raw
    /\ \A g \in FormatGroups(inp) :
          /\ \A i \in g[1]..g[2] :
                Cardinality({j \in g[1]..g[2] : out[j].raw = inp[i].raw})
                    = Cardinality({j \in g[1]..g[2] :
                                      inp[j].raw = inp[i].raw})
          /\ \A k \in 1..Len(GroupHeader(inp, g)) :
                out[g[1] + k - 1].raw = GroupHeader(inp, g)[k]
          /\ \A i, j \in g[1]..g[2] :
                (/\ i < j
                 /\ out[i].kind = "assignment"
                 /\ out[j].kind = "assignment")
                    => /\ i > Len(GroupHeader(inp, g)) + g[1] - 1
                       /\ localeCompare(out[i].key, out[j].key) <= 0

\* C17: formatting in sections mode with sort = alpha moves no line across a blank
\* line: every blank line keeps its index and the lines between two blank lines stay
\* between them; in every group the comments that preceded the first assignment come
\* first, and the assignment lines follow in non-decreasing key order.
FormatSectionsAlpha ==
    (Len(outcomes) >= 1 /\ options.mode = "sections" /\ options.sort = "alpha") =>
        \E inp \in {FormatInput} : \E out \in {FormatOutput} : SectionsAlpha(inp, out)

\* a text of two groups, the second of which had its assignments out of order behind a
\* blank line that stayed in place
FormatSectionsAlphaWitness ==
    /\ Len(outcomes) >= 1
    /\ options.mode = "sections"
    /\ options.sort = "alpha"
    /\ outcomes[1].hasChanges
    /\ Len(FormatInput) = 3
    /\ FormatInput[1].kind = "blank"
    /\ FormatInput[2].kind = "assignment"
    /\ FormatInput[3].kind = "assignment"
    /\ FormatOutput[1].kind = "blank"
    /\ FormatOutput[2].raw = FormatInput[3].raw
    /\ FormatOutput[3].raw = FormatInput[2].raw

\* the issues the parse recorded at a line
IssuesAt(i) == SelectSeq(doc.issues, LAMBDA issue : issue.line = i)

KeyIssueMessages == {"Invalid key name", "Missing = in assignment"}

QuoteIssueMessages == {"Unterminated single-quoted value", "Unterminated double-quoted value"}

\* C18: the parse of every text numbers its lines 1..n in order; an assignment has a
\* non-empty key of characters [A-Za-z0-9_]; a line is unknown exactly when one
\* 'Invalid key name' or 'Missing = in assignment' issue is recorded at its number;
\* blank and comment lines have no issue; an assignment has at most one issue, an
\* unterminated quote, and has a value all the same.
ParseWellFormed ==
    pc # "start" =>
        /\ \A k \in 1..Len(doc.issues) : doc.issues[k].line \in 1..Len(doc.lines)
        /\ \A i \in 1..Len(doc.lines) :
            LET l == doc.lines[i]
                keyIssues == SelectSeq(IssuesAt(i), LAMBDA issue : issue.message \in KeyIssueMessages)
            IN  /\ l.line = i
                /\ l.kind \in {"blank", "comment", "assignment", "unknown"}
                /\ l.kind = "unknown" <=> Len(keyIssues) = 1
                /\ l.kind = "unknown" => Len(IssuesAt(i)) = 1
                /\ l.kind \in {"blank", "comment"} => IssuesAt(i) = <<>>
                /\ l.kind = "assignment" =>
                      /\ Len(l.key) > 0
                      /\ \A k \in 1..Len(l.key) : l.key[k] \in KeyChars
                      /\ Len(IssuesAt(i)) <= 1
                      /\ \A k \in 1..Len(IssuesAt(i)) :
                            IssuesAt(i)[k].message \in QuoteIssueMessages
                      /\ "value" \in DOMAIN l
                      /\ Len(l.value) >= 0

\* a parse that met an unknown line with its issue and an assignment with an
\* unterminated quote and a recovered value
ParseWellFormedWitness ==
    /\ pc = "parsed"
    /\ \E i, j \in 1..Len(doc.lines) :
          /\ doc.lines[i].kind = "unknown"
          /\ doc.lines[j].kind = "assignment"
          /\ Len(IssuesAt(j)) = 1
          /\ doc.lines[j].value = <<"u">>
    /\ Len(doc.issues) = 2

----------------------------------------------------------------------------
(* Source scenario: a value source loads its snapshot once.                 *)

InitSource ==
    /\ pc = "start"
    /\ options \in SourceOptions
    /\ \E t \in SourceTexts :
          IF options.op = "DotenvFileSource"
          THEN files = [p \in {FilePath} |-> t] /\ sourceContents = <<>>
          ELSE files = EmptyMap /\ sourceContents = t
    /\ env = EmptyMap
    /\ fsLog = <<>>
    /\ tasks = <<>>
    /\ outcomes = <<>>
    /\ original = <<>>
    /\ edited = <<>>
    /\ DocIdle
    /\ QuoteIdle
    /\ MatchIdle

\* DotenvFileSource.load()
DotenvFileSourceLoad ==
    /\ pc = "start"
    /\ options.op = "DotenvFileSource"
    /\ outcomes' = <<Load(parseDotenv(files[FilePath]), options.allowErrors,
                          "Invalid dotenv file")>>
    /\ fsLog' = Append(fsLog, FsCall("readFile", FilePath))
    /\ pc' = "done"
    /\ UNCHANGED <<files, fileOpFrame>>

\* ExternalCommandSource.load(): sourceContents is what the command wrote to stdout
ExternalCommandSourceLoad ==
    /\ pc = "start"
    /\ options.op = "ExternalCommandSource"
    /\ outcomes' = <<Load(parseDotenv(sourceContents), options.allowErrors,
                          "Invalid dotenv content from external command")>>
    /\ pc' = "done"
    /\ UNCHANGED <<files, fsLog, fileOpFrame>>

NextSource == DotenvFileSourceLoad \/ ExternalCommandSourceLoad

SpecSource == InitSource /\ [][NextSource]_vars

\* the text the source parsed
LoadedText == IF options.op = "DotenvFileSource" THEN files[FilePath] ELSE sourceContents

\* the numbers of the lines of the text that produced an error
ErrorLines == {parseDotenv(LoadedText).errors[k].line : k \in 1..Len(parseDotenv(LoadedText).errors)}

\* the key/value pairs of the lines that parsed without any error: the text is parsed
\* again with the other lines emptied
CleanValues ==
    parseDotenv(Join([i \in 1..Len(SplitLines(LoadedText)) |->
                         IF i \in ErrorLines THEN <<>> ELSE SplitLines(LoadedText)[i]],
                     <<"\n">>)).values

\* C19: load fails when the text has a parse error and allowErrors is not set; with
\* allowErrors set it succeeds and the snapshot holds only the key/value pairs of the
\* lines that parsed without any error.
SourceErrorPolicy ==
    pc = "done" =>
        /\ (ErrorLines # {} /\ options.allowErrors # <<TRUE>>) => outcomes[1].status = "error"
        /\ options.allowErrors = <<TRUE>> =>
              /\ outcomes[1].status = "ok"
              /\ outcomes[1].values = CleanValues

\* C20: once setEnvFileKey(K, v, write = true) has been called, every further identical
\* call returns action no_change with hasChanges = false and wrote = false and leaves
\* the file system as it is, for every key and value.
SetIdempotent ==
    [][(options.op = "set" /\ options.write = <<TRUE>> /\ Len(outcomes) >= 1) =>
          /\ outcomes'[Len(outcomes')].plan.action = "no_change"
          /\ ~outcomes'[Len(outcomes')].hasChanges
          /\ ~outcomes'[Len(outcomes')].wrote
          /\ files' = files]_vars

----------------------------------------------------------------------------
(* Concurrent writers: up to MaxWriters calls of writeTextFileAtomic on one *)
(* path, interleaved at their awaits.  In this scenario a path is the       *)
(* sequence of its components, `files` holds regular files only, and a      *)
(* temporary directory exists from the mkdtemp that made it to the rm that  *)
(* removed it.                                                              *)

MaxWriters == 2

\* the path every call writes to
WritePath == <<"dir", ".env">>

\* what the calls are asked to write
WriterTexts == {<<"A", "\n">>, <<"B", "\n">>}

\* the file before the first call: absent, or holding a text
WriterFileSystems == {EmptyMap} \cup {[p \in {WritePath} |-> <<"O", "\n">>]}

\* the random suffixes mkdtemp can append
TmpSuffixes == {"r1", "r2", "r3"}

\* path.dirname
dirname(path) == SubSeq(path, 1, Len(path) - 1)

\* path.join(dir, name)
join(dir, name) == Append(dir, name)

\* a call that has not started yet
NewTask(cont) ==
    [pc |-> "mkdtemp", contents |-> cont, tmp |-> <<>>, tmpExists |-> FALSE,
     written |-> 0, failed |-> FALSE, renamed |-> FALSE]

\* the temporary directories that exist
TmpDirs == {tasks[i].tmp : i \in {j \in 1..Len(tasks) : tasks[j].tmpExists}}

\* const tmpFile = join(tmp, 'file')
TmpFile(tmp, filePath) == join(tmp, "file")

\* the file system without the files under dir
RemoveTree(fs, dir) ==
    [p \in {q \in DOMAIN fs : Len(q) < Len(dir) \/ SubSeq(q, 1, Len(dir)) # dir} |-> fs[p]]

InitWriters ==
    /\ pc = "start"
    /\ files \in WriterFileSystems
    /\ original = readFile(files, WritePath)
    /\ \E n \in 1..MaxWriters : tasks \in [1..n -> {NewTask(t) : t \in WriterTexts}]
    /\ env = EmptyMap
    /\ fsLog = <<>>
    /\ sourceContents = <<>>
    /\ edited = <<>>
    /\ options = NoOptions
    /\ outcomes = <<>>
    /\ DocIdle
    /\ QuoteIdle
    /\ MatchIdle

writerFrame == <<pc, original, env, fsLog, sourceContents, edited, options, outcomes,
                 docVars, quoteVars, matchVars>>

\* a call moves on: its record changes, and maybe the file system
TaskStep(i, task, fs) ==
    /\ tasks' = [tasks EXCEPT ![i] = task]
    /\ files' = fs
    /\ UNCHANGED writerFrame

\* const tmp = await mkdtemp(join(dir, '.envsitter-tmp-')): a fresh directory
Mkdtemp ==
    \E i \in 1..Len(tasks) :
        /\ tasks[i].pc = "mkdtemp"
        /\ \E suffix \in TmpSuffixes :
              /\ join(join(dirname(WritePath), ".envsitter-tmp-"), suffix) \notin TmpDirs
              /\ TaskStep(i, [tasks[i] EXCEPT !.pc = "open", !.tmpExists = TRUE,
                                              !.tmp = join(join(dirname(WritePath), ".envsitter-tmp-"), suffix)],
                          files)

\* mkdtemp rejects: the call rejects before the try block
MkdtempFails ==
    \E i \in 1..Len(tasks) :
        /\ tasks[i].pc = "mkdtemp"
        /\ TaskStep(i, [tasks[i] EXCEPT !.pc = "thrown"], files)

\* writeFile(tmpFile, contents, 'utf8') opens the file with flag 'w': created or truncated
WriteFileOpen ==
    \E i \in 1..Len(tasks) :
        /\ tasks[i].pc = "open"
        /\ TaskStep(i, [tasks[i] EXCEPT !.pc = "write"],
                    MapSet(files, TmpFile(tasks[i].tmp, WritePath), <<>>))

\* writeFile writes the text piece by piece; after the last piece it resolves
WriteFileChunk ==
    \E i \in 1..Len(tasks) :
        /\ tasks[i].pc = "write"
        /\ \E f \in {TmpFile(tasks[i].tmp, WritePath)} :
              \E n \in {tasks[i].written + 1} :
                  TaskStep(i, [tasks[i] EXCEPT !.written = n,
                                               !.pc = IF n = Len(tasks[i].contents) THEN "rename" ELSE "write"],
                           MapSet(files, f, Append(readTextFileOrEmpty(files, f), tasks[i].contents[n])))

\* writeFile or rename rejects: control passes to the finally block with the error pending
TryFails ==
    \E i \in 1..Len(tasks) :
        /\ tasks[i].pc \in {"open", "write", "rename"}
        /\ TaskStep(i, [tasks[i] EXCEPT !.pc = "rm", !.failed = TRUE], files)

\* await rename(tmpFile, filePath): the target is replaced in one step
Rename ==
    \E i \in 1..Len(tasks) :
        /\ tasks[i].pc = "rename"
        /\ \E f \in {TmpFile(tasks[i].tmp, WritePath)} :
              /\ f \in DOMAIN files
              /\ TaskStep(i, [tasks[i] EXCEPT !.pc = "rm", !.renamed = TRUE],
                          [p \in (DOMAIN files \ {f}) \cup {WritePath} |->
                              IF p = WritePath THEN files[f] ELSE files[p]])

\* finally: await rm(tmp, {recursive: true, force: true}); then the call resolves, or
\* rejects with the pending error
Rm ==
    \E i \in 1..Len(tasks) :
        /\ tasks[i].pc = "rm"
        /\ TaskStep(i, [tasks[i] EXCEPT !.pc = IF tasks[i].failed THEN "thrown" ELSE "returned",
                                        !.tmpExists = FALSE],
                    RemoveTree(files, tasks[i].tmp))

\* rm rejects (force only silences a missing path): the call rejects with that error
RmFails ==
    \E i \in 1..Len(tasks) :
        /\ tasks[i].pc = "rm"
        /\ TaskStep(i, [tasks[i] EXCEPT !.pc = "thrown", !.failed = TRUE], files)

NextWriters ==
    \/ Mkdtemp
    \/ MkdtempFails
    \/ WriteFileOpen
    \/ WriteFileChunk
    \/ TryFails
    \/ Rename
    \/ Rm
    \/ RmFails

SpecWriters == InitWriters /\ [][NextWriters]_vars

\* the texts the calls were given
WriterContents == {tasks[i].contents : i \in 1..Len(tasks)}

\* the target holds its previous content or the complete text of one of the calls
TargetIsWhole ==
    \/ readFile(files, WritePath) = original
    \/ WritePath \in DOMAIN files /\ files[WritePath] \in WriterContents

\* C21: under every interleaving of concurrent writeTextFileAtomic calls on one path,
\* and whichever step of a call fails, the target file holds at every instant its
\* previous content or the complete text of one of the calls, and a call that failed
\* has not changed the target.
AtomicReplaceUnderInterleaving ==
    /\ TargetIsWhole
    /\ \A i \in 1..Len(tasks) : tasks[i].pc = "thrown" => ~tasks[i].renamed

----------------------------------------------------------------------------
\* C22: when the plan of copyEnvFileKeys holds a conflict entry the target file is not
\* written and wrote is false, even with write = true and hasChanges = true, so no
\* other key of the plan reaches the file; the conflict is an entry of the returned
\* plan and the call does not throw (it returns whenever the source file can be read).
CopyFileAllOrNothing ==
    [][options.op = "copy" /\ readFile(files, options.from) # <<>> =>
          LET r == outcomes'[Len(outcomes')]
          IN  /\ r.status = "ok"
              /\ (\E i \in 1..Len(r.plan) : r.plan[i].action = "conflict") =>
                    /\ ~r.wrote
                    /\ files' = files
                    /\ ~LastCallWrote]_vars

\* a call with write = true whose plan holds a conflict beside a key it would copy
CopyFileAllOrNothingWitness ==
    /\ pc = "done"
    /\ options.op = "copy"
    /\ options.write = <<TRUE>>
    /\ outcomes[1].status = "ok"
    /\ outcomes[1].hasChanges
    /\ ~outcomes[1].wrote
    /\ \E i, j \in 1..Len(outcomes[1].plan) :
          /\ outcomes[1].plan[i].action = "conflict"
          /\ outcomes[1].plan[j].action = "copy"

----------------------------------------------------------------------------
\* no key is assigned on two lines of the text
AtMostOneAssignmentPerKey(cont) ==
    \E a \in {listAssignments(parseDotenvDocument(cont).lines)} :
        \A i, j \in 1..Len(a) : a[i].key = a[j].key => i = j

\* C23: if the target text assigns every key at most once, then for every key list,
\* rename map and conflict policy the output of copyDotenvKeys assigns every key at
\* most once, also when the rename map sends two requested keys to one target key.
CopyNoDuplicateKeys ==
    (pc = "done" /\ AtMostOneAssignmentPerKey(original)) => AtMostOneAssignmentPerKey(edited)

----------------------------------------------------------------------------
(* Pepper race: up to MaxResolvers calls of resolvePepper with the same     *)
(* options, interleaved at their awaits, no environment pepper set and the  *)
(* pepper file missing at the start.                                        *)

MaxResolvers == 2

\* a call that has not started its try block yet
NewResolver == [pc |-> "readFile", pepper |-> <<>>, pepperBytes |-> <<>>]

InitPepperRace ==
    /\ pc = "start"
    /\ options \in {o \in PepperOptions : o.createIfMissing # <<FALSE>>}
    /\ files \in {fs \in PepperFileSystems :
                     (IF options.pepperFilePath = <<>> THEN defaultPepperFilePath
                      ELSE options.pepperFilePath[1]) \notin DOMAIN fs}
    /\ env = EmptyMap
    /\ \E n \in 2..MaxResolvers : tasks = [i \in 1..n |-> NewResolver]
    /\ fsLog = <<>>
    /\ sourceContents = <<>>
    /\ original = <<>>
    /\ edited = <<>>
    /\ outcomes = <<>>
    /\ DocIdle
    /\ QuoteIdle
    /\ MatchIdle

resolverFrame == <<pc, options, env, fsLog, sourceContents, original, edited, outcomes,
                   docVars, quoteVars, matchVars>>

\* a call moves on: its record changes, and maybe the file system
ResolverStep(i, task, fs) ==
    /\ tasks' = [tasks EXCEPT ![i] = task]
    /\ files' = fs
    /\ UNCHANGED resolverFrame

\* try { content = await readFile(...); return parsePepperFileContentToBytes(content) }
\* and, when either throws, the entry into the catch block
ResolverReadFile ==
    \E i \in 1..Len(tasks) :
        /\ tasks[i].pc = "readFile"
        /\ \E read \in {ReadPepper(files, ConfiguredPath)} :
              ResolverStep(i,
                  IF read.status = "ok"
                  THEN [tasks[i] EXCEPT !.pc = "returned", !.pepperBytes = read.pepperBytes]
                  ELSE [tasks[i] EXCEPT !.pc = "mkdir"],
                  files)

\* await mkdir(dir, {recursive: true})
ResolverMkdir ==
    \E i \in 1..Len(tasks) :
        /\ tasks[i].pc = "mkdir"
        /\ ResolverStep(i, [tasks[i] EXCEPT !.pc = "writeFile"], files)

\* const pepper = randomBytes(32); writeFile(...) opens the file with flag 'w': created
\* or truncated
ResolverWriteFileOpen ==
    \E i \in 1..Len(tasks) :
        /\ tasks[i].pc = "writeFile"
        /\ \E fresh \in RandomBytes :
              ResolverStep(i, [tasks[i] EXCEPT !.pc = "write", !.pepper = fresh],
                           MapSet(files, ConfiguredPath, <<>>))

\* writeFile writes pepper.toString('base64') and resolves
ResolverWriteFile ==
    \E i \in 1..Len(tasks) :
        /\ tasks[i].pc = "write"
        /\ ResolverStep(i, [tasks[i] EXCEPT !.pc = "chmod"],
                        MapSet(files, ConfiguredPath, base64Encode(tasks[i].pepper)))

\* await chmod(...); return {pepperBytes: new Uint8Array(pepper), ...}
ResolverChmod ==
    \E i \in 1..Len(tasks) :
        /\ tasks[i].pc = "chmod"
        /\ ResolverStep(i, [tasks[i] EXCEPT !.pc = "returned", !.pepperBytes = tasks[i].pepper],
                        files)

NextPepperRace ==
    \/ ResolverReadFile
    \/ ResolverMkdir
    \/ ResolverWriteFileOpen
    \/ ResolverWriteFile
    \/ ResolverChmod

SpecPepperRace == InitPepperRace /\ [][NextPepperRace]_vars

\* C24: when concurrent resolvePepper calls for one path start with the pepper file
\* missing and no environment pepper, then once all have returned they have returned
\* the same pepper bytes, and these are the decoded content of the file.
PepperCreationRace ==
    (\A i \in 1..Len(tasks) : tasks[i].pc = "returned") =>
        \A i \in 1..Len(tasks) :
            /\ tasks[i].pepperBytes = tasks[1].pepperBytes
            /\ ConfiguredPath \in DOMAIN files
            /\ tasks[i].pepperBytes = base64Decode(Trim(files[ConfiguredPath]))

----------------------------------------------------------------------------
\* C25: for every snapshot, key list and matcher, a regular expression with the global
\* or sticky flag included, the i-th entry matchKeyBulk(keys, matcher) returns is keys[i]
\* with the answer matchKey(keys[i], matcher) gives on the same snapshot and pepper
\* and with the matcher as it was handed to matchKeyBulk.
BulkEqualsSingle ==
    [][(call'.method = "matchKeyBulk" /\ result'.status = "returned") =>
          /\ Len(result'.matches) = Len(call'.keys)
          /\ \A i \in 1..Len(call'.keys) :
                \E single \in {matchKey(snapshot, pepper, call'.keys[i], call'.matcher, lastIndex)} :
                    /\ single.status = "returned"
                    /\ result'.matches[i] = KeyMatch(call'.keys[i], single.match)]_vars

----------------------------------------------------------------------------
(* Parser scenario: one text parsed by parseDotenvDocument and by           *)
(* parseDotenv.                                                             *)

\* raw lines: assignments (one key twice), export followed by a space, by several
\* spaces, by a tab, whitespace around the key, an unterminated quote, malformed lines,
\* a comment, a blank line
ParserLineSamples ==
    { <<"A", "=", "1">>,
      <<"A", " ", "=", " ", "2", " ", "#", "c">>,
      <<"e", "x", "p", "o", "r", "t", " ", "B", "=", "'", "v", "'">>,
      <<"e", "x", "p", "o", "r", "t", " ", " ", "B", "=", "3">>,
      <<"e", "x", "p", "o", "r", "t", "\t", "T", "=", "4">>,
      <<"Q", "=", "\"", "u">>,
      <<"N", "O", "E", "Q">>,
      <<"B", "-", "K", "=", "1">>,
      <<"#", "c">>,
      <<>> }

ParserTexts ==
    {TextOf(ls, nl, TRUE) : ls \in SeqsUpTo(ParserLineSamples, MaxLines), nl \in LineTerminators}

InitParsers ==
    /\ pc = "start"
    /\ contents \in ParserTexts
    /\ doc = EmptyDoc
    /\ output = <<>>
    /\ QuoteIdle
    /\ MatchIdle
    /\ EditIdle
    /\ FsIdle

\* parseDotenvDocument(contents)
ParseAsDocument ==
    /\ pc = "start"
    /\ doc' = parseDotenvDocument(contents)
    /\ pc' = "document"
    /\ UNCHANGED <<contents, output, quoteVars, matchVars, editVars, fsVars>>

\* parseDotenv(contents)
ParseAsValues ==
    /\ pc = "document"
    /\ outcomes' = <<parseDotenv(contents)>>
    /\ pc' = "done"
    /\ UNCHANGED <<contents, doc, output, quoteVars, matchVars, sourceContents, original,
                   edited, options, fsVars>>

NextParsers == ParseAsDocument \/ ParseAsValues

SpecParsers == InitParsers /\ [][NextParsers]_vars

\* the key-to-value map of a document: the last assignment of a key wins
DocumentValues(a) ==
    [k \in {a[i].key : i \in 1..Len(a)} |-> lastAssignmentForKey(a, k)[1].value]

\* C26: for every text the key-to-value map parseDotenv returns is the map of the
\* assignment lines of parseDotenvDocument, the last assignment of a key winning, and
\* parseDotenv reports an error on exactly the lines on which parseDotenvDocument
\* reports an issue, export followed by a tab or by several spaces and keys followed
\* by whitespace included.
ParsersAgree ==
    pc = "done" =>
        /\ outcomes[1].values = DocumentValues(listAssignments(doc.lines))
        /\ {outcomes[1].errors[i].line : i \in 1..Len(outcomes[1].errors)}
              = {doc.issues[i].line : i \in 1..Len(doc.issues)}

----------------------------------------------------------------------------
\* the outcomes the operations report as leaving the text alone: annotate not_found or
\* ambiguous, format with sort none, a copy plan made of skip, conflict and
\* missing_source entries only
ReportsNoEffect(opts, r) ==
    CASE opts.op = "annotate" -> r.plan.action \in {"not_found", "ambiguous"}
      [] opts.op = "format" -> opts.sort = "none"
      [] opts.op = "copy" ->
            \A i \in 1..Len(r.plan) : r.plan[i].action \in {"skip", "conflict", "missing_source"}

\* C27: copyDotenvKeys (against targetContents), annotateDotenvKey and formatDotenv
\* return hasChanges = true exactly when the output differs from the input text, and
\* an outcome of not_found, ambiguous, sort none or a plan of skip, conflict and
\* missing_source entries returns the input text unchanged.
HasChangesExact ==
    [][LET r == outcomes'[Len(outcomes')]
       IN  /\ r.hasChanges <=> (edited' # edited)
           /\ ReportsNoEffect(options, r) => edited' = edited]_vars

----------------------------------------------------------------------------
\* line i of the input is an annotation directly above an assignment
AnnotationAbove(i) ==
    /\ FormatInput[i].kind = "comment"
    /\ StartsWith(TrimStart(FormatInput[i].raw), EnvsitterMark)
    /\ FormatInput[i + 1].kind = "assignment"

\* C28: an annotation ('# envsitter:' comment) that is directly above the assignment of
\* a key is, in the output of formatDotenv with sort = alpha in either mode, still
\* directly above that assignment.
FormatKeepsAnnotations ==
    (Len(outcomes) >= 1 /\ options.sort = "alpha") =>
        \A i \in 1..(Len(FormatInput) - 1) :
            AnnotationAbove(i) =>
                \E j \in 1..(Len(FormatOutput) - 1) :
                    /\ FormatOutput[j].raw = FormatInput[i].raw
                    /\ FormatOutput[j + 1].raw = FormatInput[i + 1].raw

----------------------------------------------------------------------------
\* the raw texts of the assignments of one key, in order
RawsOfKey(docLines, key) ==
    RawLines(SelectSeq(listAssignments(docLines), LAMBDA l : l.key = key))

\* out holds the lines of inp, each as often as inp does, and the assignments of one
\* key in the order they have in inp
PermutesLines(inp, out) ==
    /\ Len(out) = Len(inp)
    /\ \A i \in 1..Len(inp) :
          Cardinality({j \in 1..Len(out) : out[j].raw = inp[i].raw})
              = Cardinality({j \in 1..Len(inp) : inp[j].raw = inp[i].raw})
    /\ \A i \in 1..Len(inp) :
          inp[i].kind = "assignment" => RawsOfKey(out, inp[i].key) = RawsOfKey(inp, inp[i].key)

\* formatting changed nothing but the order of the lines: parsed input, parsed output,
\* and the result of formatDotenv
OnlyPermutes(parsedIn, parsedOut, r) ==
    /\ PermutesLines(parsedIn.lines, parsedOut.lines)
    /\ parsedOut.endsWithNewline = parsedIn.endsWithNewline
    /\ r.issues = parsedIn.issues

\* C29: for every text, mode and sort the lines of the output of formatDotenv are a
\* permutation of the input lines, each with its raw text unchanged; the final-newline
\* flag is kept, the issues returned are those of parsing the input, and assignments
\* of one key keep their relative order (lines and flag of a text being those
\* parseDotenvDocument reads from it).
FormatOnlyPermutes ==
    Len(outcomes) >= 1 =>
        \E parsedIn \in {parseDotenvDocument(original)} :
            \E parsedOut \in {parseDotenvDocument(outcomes[1].output)} :
                OnlyPermutes(parsedIn, parsedOut, outcomes[1])

----------------------------------------------------------------------------
\* C30: when targetContents is the empty text (a target file that does not exist yet)
\* the output of copyDotenvKeys consists of exactly the copied assignment lines, in
\* plan order, and does not begin with a blank line.
CopyIntoEmptyTarget ==
    (pc = "done" /\ original = <<>> /\ Len(CopiedEntries) > 0) =>
        /\ RawLines(parseDotenvDocument(outcomes[1].output).lines)
              = [i \in 1..Len(CopiedEntries) |->
                    ExpectedRaw(CopiedEntries[i].fromKey, CopiedEntries[i].toKey)]
        /\ outcomes[1].output[1] # "\n"

====
